---- MODULE Spec2Model ----
(***************************************************************************)
(* The research streaming handler websocket_research_run                   *)
(* (src/src/api/routers/research.py, lines 620-1009) as a state machine.   *)
(*                                                                         *)
(* One handler instance runs per connection; all of them share one event   *)
(* loop, the process-wide sys.stdout slot and the task registry.  An       *)
(* action is the code a coroutine runs between two suspension points       *)
(* (await) of the source.  A websocket send is one step: the I/O either    *)
(* succeeds or raises, chosen per send.  A chunk handed to                 *)
(* call_soon_threadsafe(queue.put_nowait, x) is taken as enqueued at the   *)
(* call: the loop runs these callbacks in FIFO order, so the queue and the *)
(* pending callbacks form one FIFO.  Logger calls are taken not to raise.  *)
(*                                                                         *)
(* The composition of the run config (lines 648-823) is a pure function of *)
(* the handshake and of what load_config() returned.  It is followed step  *)
(* by step in a specification of its own, SpecCompose, over handshakes and *)
(* loaded configs drawn from bounded sets; mappings keep value semantics.  *)
(***************************************************************************)
EXTENDS Integers, Sequences, FiniteSets, TLC

\* ---------------------------------------------------------------- bounds
\* how many chunks, progress events and heartbeats are produced in all
MaxActivity == 3
\* the same with simultaneous connections
MaxMultiActivity == 2

\* the longest enabled_tools list a handshake carries
MaxToolsLen == 3

\* how deep the mappings of the configuration files nest
MaxMergeDepth == 2

\* how many calls are made on the notebook
MaxCalls == 3

Conns == {1, 2}

Real == 0      \* the process's real standard output
NoTask == "none"

TopicOrder == << "t1", "t2" >>
Topics == {TopicOrder[i] : i \in 1..Len(TopicOrder)}
FalsyTopics == {"", "missing"}     \* data.get("topic") is "" or None

VARIABLES
  pc,              \* handler position of each connection
  exit,            \* by which path the handler left
  ws_connected,    \* line 630
  original_stdout, \* line 631, the handler's saved sink
  sys_stdout,      \* the global sys.stdout slot: Real or an interceptor (its connection)
  icp_original,    \* line 900, ResearchStdoutInterceptor.original_stdout
  log_queue,       \* line 836
  progress_queue,  \* line 837
  pusher_task,     \* line 881
  progress_pusher_task, \* line 882
  heartbeat_task,  \* line 894
  registry,        \* TaskIDManager: task id -> status
  topic,           \* line 649
  task_id,         \* line 670
  config_bound,    \* whether line 676 has bound the local `config`
  result,          \* line 929, what pipeline.run returned
  runs,            \* number of pipeline.run invocations of the connection
  writes,          \* chunks the pipeline has printed
  events,          \* progress events the pipeline has emitted
  pings,           \* heartbeat iterations
  inbox,           \* client frames sent during the run, never read
  history,         \* history_manager entries added by the connection
  sent,            \* every websocket send I/O attempted: [type, body, ok]
  skipped,         \* whether the gate has turned a safe_send into a no-op
  log_enqueued,    \* every chunk ever put on the connection's log queue
  raise_mark,      \* Len(log_enqueued) when the run raised, -1 before
  real_sink,       \* chunks written to the real standard output
  faults,          \* the scenario explored: whether sends and hand-offs may fail
  persist_failed,  \* the persistence collaborator that raised in the run, if any
  handoff_failed,  \* the chunks whose hand-off to the connection's log queue raised
  data,            \* line 648, the handshake message of the composition studied
  loaded_config,   \* line 676, what load_config() returned
  config,          \* the local `config` as lines 706-823 have made it so far
  enabled_tools,   \* lines 655-658
  compose_pc,      \* how far the composition has got
  shared,          \* the keys of config["planning"] whose mapping is one object
                   \* with a mapping elsewhere in the config, and where
  main_config,     \* loader.py line 64, what main.yaml holds
  module_config,   \* loader.py line 75, what the module's own file holds
  merged_config,   \* loader.py line 88
  loader_pc,       \* how far load_config_with_main has got
  sessions,        \* notebook_manager.py: data["sessions"] as stored for the notebook
  clock,           \* time.time(), one tick per call
  last_call        \* the call made last on the notebook and what it was given

handler_vars ==
  << pc, exit, ws_connected, original_stdout, sys_stdout, icp_original,
     log_queue, progress_queue, pusher_task, progress_pusher_task,
     heartbeat_task, registry, topic, task_id, config_bound, result,
     runs, writes, events, pings, inbox, history, sent, skipped, log_enqueued,
     raise_mark, real_sink, faults, persist_failed, handoff_failed >>

composer_vars == << data, loaded_config, config, enabled_tools, compose_pc, shared >>

loader_vars == << main_config, module_config, merged_config, loader_pc >>

notebook_vars == << sessions, clock, last_call >>

service_vars == << loader_vars, notebook_vars >>

vars == << handler_vars, composer_vars, service_vars >>

\* ---------------------------------------------------------------- messages
Body(c, n, ws) == [conn |-> c, n |-> n, ws |-> ws]
NoBody(c) == Body(c, 0, FALSE)
Msg(t, b) == [type |-> t, body |-> b]

Attempt(m, ok) == [type |-> m.type, body |-> m.body, ok |-> ok]

\* The messages the client received on connection c, in order.
IsOk(a) == a.ok
Delivered(c) == SelectSeq(sent[c], IsOk)

RECURSIVE CountType(_, _)
CountType(s, t) ==
  IF s = << >> THEN 0
  ELSE (IF Head(s).type = t THEN 1 ELSE 0) + CountType(Tail(s), t)

HasType(s, t) == \E i \in 1..Len(s) : s[i].type = t

\* ---------------------------------------------------------------- safe_send
\* a gate that does not look at the flag
safe_send_attempts_always(alive) == TRUE

\* line 636: I/O is attempted only while the flag is true
safe_send_attempts(alive) == alive

\* a gate that forgets to clear the flag
safe_send_flag_kept(alive, ok) == alive

\* a gate that sets the flag from the outcome of the last send
safe_send_flag_follows(alive, ok) == ok

\* lines 641-644: a failed I/O clears the flag, nothing sets it
safe_send_flag(alive, ok) == IF alive /\ ~ok THEN FALSE ELSE alive

\* lines 637, 640, 644: the value returned
safe_send_returns(alive, ok) == alive /\ ok

\* safe_send(data) at flag `alive`, send log `s`, with the I/O outcome `ok`
safe_send(alive, s, m, ok) ==
  [ alive   |-> safe_send_flag(alive, ok),
    sent    |-> IF safe_send_attempts(alive) THEN Append(s, Attempt(m, ok)) ELSE s,
    skip    |-> ~safe_send_attempts(alive),
    ret     |-> safe_send_returns(alive, ok) ]

\* websocket.send_json called directly (lines 665, 673, 831): no gate, the flag untouched
raw_send(s, m, ok) == Append(s, Attempt(m, ok))

\* ---------------------------------------------------------------- registry
\* TaskIDManager.generate_task_id: the id is derived from the dedupe key alone;
\* the entry is created on first use
generate_task_id(key) == key

registry_after_generate(reg, key) ==
  IF reg[key] = "absent" THEN [reg EXCEPT ![key] = "running"] ELSE reg

\* TaskIDManager.update_task_status
update_task_status(reg, id, st) ==
  IF id \in DOMAIN reg /\ reg[id] # "absent" THEN [reg EXCEPT ![id] = st] ELSE reg

\* ---------------------------------------------------------------- interceptor
\* The interceptors a write to sink s passes through, outermost first:
\* write() forwards to self.original_stdout (line 904), which may be another
\* interceptor.
RECURSIVE Chain(_, _)
Chain(s, orig) ==
  IF s = Real THEN << >> ELSE << s >> \o Chain(orig[s], orig)

InChain(c, s, orig) == \E i \in 1..Len(Chain(s, orig)) : Chain(s, orig)[i] = c

\* an interceptor that takes every chunk for non-blank
strips_nonempty_always(chunk) == TRUE

\* line 906: message.strip() is truthy
strips_nonempty(chunk) == ~chunk.ws

\* lines 906-913: whether interceptor write() puts the chunk on its queue;
\* put_ok is false when the hand-off raises (no loop in the calling thread)
write_enqueues(chunk, put_ok) == strips_nonempty(chunk) /\ put_ok

\* lines 907-913: the hand-off was tried and raised; the except clause drops
\* the chunk and write() returns normally
write_drops(chunk, put_ok) == strips_nonempty(chunk) /\ ~put_ok

\* lines 902-913 applied along the whole chain: the queue of connection c
\* after `chunk` was written to sink s
queue_after_write(q, c, s, orig, chunk, put_ok) ==
  IF InChain(c, s, orig) /\ write_enqueues(chunk, put_ok) THEN Append(q, chunk) ELSE q

\* line 987: what the handler puts back into sys.stdout
restored_stdout(c) == original_stdout[c]

\* ---------------------------------------------------------------- config values
\* A mapping (dict) is a function on its keys.  A value inside a mapping carries
\* its Python type, so that isinstance(value, dict) can be asked of it.
Str(x) == [str |-> x]
Num(n) == [int |-> n]
Bool(b) == [bool |-> b]
List(q) == [list |-> q]
Dict(m) == [dict |-> m]
Null == [none |-> TRUE]
IsDict(v) == "dict" \in DOMAIN v

EmptyDict == [k \in {} |-> k]

\* dict.get(k, d), d[k] = v, dict.update(n)
Get(m, k, d) == IF k \in DOMAIN m THEN m[k] ELSE d
Put(m, k, v) == [x \in DOMAIN m \cup {k} |-> IF x = k THEN v ELSE m[x]]
update(m, n) == [x \in DOMAIN m \cup DOMAIN n |-> IF x \in DOMAIN n THEN n[x] ELSE m[x]]

\* ---------------------------------------------------------------- handshake fields
\* a handshake that takes the tool list as it came
with_web_as_given(tools) == tools

\* lines 656-657: Web is put in front when it is not listed
with_web(tools) ==
  IF \E i \in 1..Len(tools) : tools[i] = "Web" THEN tools ELSE << "Web" >> \o tools

\* line 658, list(dict.fromkeys(tools)): each item once, at its first position
RECURSIVE fromkeys(_)
fromkeys(tools) ==
  IF tools = << >> THEN << >>
  ELSE LET front == fromkeys(SubSeq(tools, 1, Len(tools) - 1))
           last == tools[Len(tools)]
       IN IF \E i \in 1..Len(front) : front[i] = last THEN front ELSE Append(front, last)

\* lines 654-662: the fields of the handshake with their defaults
plan_mode_of(d) == Get(d, "plan_mode", "medium")
requested_tools(d) == Get(d, "enabled_tools", << "RAG" >>)
enabled_tools_of(d) == fromkeys(with_web(requested_tools(d)))
skip_rephrase_of(d) == Get(d, "skip_rephrase", FALSE)
preset_of(d) == Get(d, "preset", "")
research_mode_of(d) == Get(d, "research_mode", "")

\* ---------------------------------------------------------------- config composer
\* line 690
research_config(cfg) == Get(cfg, "research", Dict(EmptyDict)).dict

\* a merge in which the defaults win over the section's own values
fill_missing_defaults_win(own, dflt) ==
  [k \in DOMAIN own \cup DOMAIN dflt |-> IF k \in DOMAIN dflt THEN dflt[k] ELSE own[k]]

\* lines 732-735, 743-746: the keys the section lacks are taken from the defaults
fill_missing(own, dflt) ==
  [k \in DOMAIN own \cup DOMAIN dflt |-> IF k \in DOMAIN own THEN own[k] ELSE dflt[k]]

\* lines 709-718: the same for planning, one level further down where both
\* sides hold a mapping
merge_planning(own, dflt) ==
  [k \in DOMAIN own \cup DOMAIN dflt |->
     IF k \notin DOMAIN own THEN dflt[k]
     ELSE IF k \in DOMAIN dflt /\ IsDict(dflt[k]) /\ IsDict(own[k])
          THEN Dict(fill_missing(own[k].dict, dflt[k].dict))
          ELSE own[k]]

\* lines 706-718
init_planning(cfg) ==
  LET default_planning == Get(research_config(cfg), "planning", Dict(EmptyDict)).dict IN
  IF "planning" \notin DOMAIN cfg
  THEN Put(cfg, "planning", Dict(default_planning))
  ELSE Put(cfg, "planning", Dict(merge_planning(cfg.planning.dict, default_planning)))

\* lines 721-724
ensure_key(m, k) == IF k \in DOMAIN m THEN m ELSE Put(m, k, Dict(EmptyDict))
ensure_decompose_rephrase(cfg) ==
  Put(cfg, "planning", Dict(ensure_key(ensure_key(cfg.planning.dict, "decompose"), "rephrase")))

\* lines 728-735 (researching) and 739-746 (reporting).  The test of lines 728
\* and 739 is `name not in config`: a section the loaded config holds as null
\* (a YAML key without content) is there, and with no defaults to go through
\* it is left as it is.
init_section(cfg, name) ==
  LET dflt == Get(research_config(cfg), name, Dict(EmptyDict)).dict IN
  IF name \notin DOMAIN cfg
  THEN Put(cfg, name, Dict(dflt))
  ELSE IF ~IsDict(cfg[name]) THEN cfg
  ELSE Put(cfg, name, Dict(fill_missing(cfg[name].dict, dflt)))

\* lines 733-734, 744-745: `key not in config[name]` raises TypeError for a
\* null section as soon as the defaults have a key
section_raises(cfg, name) ==
  /\ name \in DOMAIN cfg
  /\ ~IsDict(cfg[name])
  /\ DOMAIN Get(research_config(cfg), name, Dict(EmptyDict)).dict # {}

init_raises(cfg) == section_raises(cfg, "researching") \/ section_raises(cfg, "reporting")

\* lines 690-746
init_sections(cfg) ==
  init_section(init_section(ensure_decompose_rephrase(init_planning(cfg)),
                            "researching"), "reporting")

\* a table whose quick mode allows three iterations
plan_mode_config_quick3 ==
  [ quick |->
      [ planning |-> [decompose |-> [initial_subtopics |-> Num(2), mode |-> Str("manual")]],
        researching |-> [max_iterations |-> Num(3), iteration_mode |-> Str("fixed")],
        reporting |-> [report_type |-> Str("summary")] ],
    medium |->
      [ planning |-> [decompose |-> [initial_subtopics |-> Num(5), mode |-> Str("manual")]],
        researching |-> [max_iterations |-> Num(4), iteration_mode |-> Str("fixed")] ],
    deep |->
      [ planning |-> [decompose |-> [initial_subtopics |-> Num(8), mode |-> Str("manual")]],
        researching |-> [max_iterations |-> Num(7), iteration_mode |-> Str("fixed")] ],
    auto |->
      [ planning |-> [decompose |-> [mode |-> Str("auto"), auto_max_subtopics |-> Num(8)]],
        researching |-> [max_iterations |-> Num(6), iteration_mode |-> Str("flexible")] ] ]

\* lines 752-770
plan_mode_config ==
  [ quick |->
      [ planning |-> [decompose |-> [initial_subtopics |-> Num(2), mode |-> Str("manual")]],
        researching |-> [max_iterations |-> Num(2), iteration_mode |-> Str("fixed")],
        reporting |-> [report_type |-> Str("summary")] ],
    medium |->
      [ planning |-> [decompose |-> [initial_subtopics |-> Num(5), mode |-> Str("manual")]],
        researching |-> [max_iterations |-> Num(4), iteration_mode |-> Str("fixed")] ],
    deep |->
      [ planning |-> [decompose |-> [initial_subtopics |-> Num(8), mode |-> Str("manual")]],
        researching |-> [max_iterations |-> Num(7), iteration_mode |-> Str("fixed")] ],
    auto |->
      [ planning |-> [decompose |-> [mode |-> Str("auto"), auto_max_subtopics |-> Num(8)]],
        researching |-> [max_iterations |-> Num(6), iteration_mode |-> Str("flexible")] ] ]

\* lines 774-778: each planning key of the mode is created if absent, then updated
apply_mode_planning(planning, mode_planning) ==
  [k \in DOMAIN planning \cup DOMAIN mode_planning |->
     IF k \in DOMAIN mode_planning
     THEN Dict(update(Get(planning, k, Dict(EmptyDict)).dict, mode_planning[k]))
     ELSE planning[k]]

\* lines 771-781: only the planning and researching parts of the mode are applied
apply_plan_mode(cfg, plan_mode) ==
  IF plan_mode \notin DOMAIN plan_mode_config THEN cfg
  ELSE LET mode_cfg == plan_mode_config[plan_mode]
           c1 == IF "planning" \in DOMAIN mode_cfg
                 THEN Put(cfg, "planning",
                          Dict(apply_mode_planning(cfg.planning.dict, mode_cfg.planning)))
                 ELSE cfg
       IN IF "researching" \in DOMAIN mode_cfg
          THEN Put(c1, "researching", Dict(update(c1.researching.dict, mode_cfg.researching)))
          ELSE c1

\* line 784
preset_matches(cfg, preset) ==
  /\ preset # ""
  /\ "presets" \in DOMAIN cfg
  /\ preset \in DOMAIN cfg.presets.dict

\* lines 784-788: every section of the preset that is a mapping and names a
\* top-level key of the config is written over that key, one level deep
apply_preset(cfg, preset) ==
  IF ~preset_matches(cfg, preset) THEN cfg
  ELSE LET preset_config == cfg.presets.dict[preset].dict IN
       [k \in DOMAIN cfg |->
          IF k \in DOMAIN preset_config /\ IsDict(preset_config[k])
          THEN Dict(update(cfg[k].dict, preset_config[k].dict))
          ELSE cfg[k]]

\* lines 795-803
tool_flags(tools) ==
  LET listed(t) == \E i \in 1..Len(tools) : tools[i] = t IN
  [ enable_rag_naive |-> Bool(listed("RAG")),
    enable_rag_hybrid |-> Bool(listed("RAG")),
    enable_query_item |-> Bool(listed("RAG")),
    enable_paper_search |-> Bool(listed("Paper")),
    enable_web_search |-> Bool(listed("Web")),
    enable_run_code |-> Bool(TRUE),
    enabled_tools |-> List(tools) ]

apply_tools(cfg, tools) ==
  Put(cfg, "researching", Dict(update(cfg.researching.dict, tool_flags(tools))))

\* lines 806-807
apply_research_mode(cfg, research_mode) ==
  IF research_mode = "" THEN cfg
  ELSE Put(cfg, "researching",
           Dict(Put(cfg.researching.dict, "research_mode", Str(research_mode))))

\* lines 810-811
apply_skip_rephrase(cfg, skip_rephrase) ==
  IF ~skip_rephrase THEN cfg
  ELSE Put(cfg, "planning",
           Dict(Put(cfg.planning.dict, "rephrase",
                    Dict(Put(cfg.planning.dict.rephrase.dict, "enabled", Bool(FALSE))))))

\* lines 819-823
apply_output_paths(cfg) ==
  LET system == Get(cfg, "system", Dict(EmptyDict)).dict IN
  Put(cfg, "system",
      Dict(update(system, [output_base_dir |-> Str("research/cache"),
                           reports_dir |-> Str("research/reports")])))

\* line 707, dict.copy() is shallow: when the loaded config has no planning
\* section, each mapping inside config["planning"] is the very object held by
\* config["research"]["planning"].  (Line 712 copies the mapping it takes, and
\* lines 729 and 740 share only mappings that no later line writes into.)
shared_after_init(cfg) ==
  LET default_planning == Get(research_config(cfg), "planning", Dict(EmptyDict)).dict IN
  IF "planning" \in DOMAIN cfg THEN EmptyDict
  ELSE [k \in {x \in DOMAIN default_planning : IsDict(default_planning[x])} |-> "research"]

\* lines 784-788: config["planning"].update(value) puts the preset's own
\* objects under the keys the preset names
shared_after_preset(cfg, preset, sh) ==
  IF ~preset_matches(cfg, preset) THEN sh
  ELSE LET preset_config == cfg.presets.dict[preset].dict IN
       IF ~("planning" \in DOMAIN preset_config /\ IsDict(preset_config.planning)) THEN sh
       ELSE LET named == DOMAIN preset_config.planning.dict IN
            [k \in (DOMAIN sh \ named) \cup {x \in named : IsDict(preset_config.planning.dict[x])} |->
               IF k \in named THEN "presets" ELSE sh[k]]

\* a write into the mapping config["planning"][k] is a write into the object
\* it is shared with
write_through(cfg, sh, keys, preset) ==
  LET in_research(k) == k \in keys /\ k \in DOMAIN sh /\ sh[k] = "research"
      in_presets(k) == k \in keys /\ k \in DOMAIN sh /\ sh[k] = "presets"
      research == cfg.research.dict
      c1 == IF \E k \in keys : in_research(k)
            THEN Put(cfg, "research",
                     Dict(Put(research, "planning",
                              Dict([k \in DOMAIN research.planning.dict |->
                                      IF in_research(k) THEN cfg.planning.dict[k]
                                      ELSE research.planning.dict[k]]))))
            ELSE cfg
  IN IF \E k \in keys : in_presets(k)
     THEN LET preset_config == c1.presets.dict[preset].dict IN
          Put(c1, "presets",
              Dict(Put(c1.presets.dict, preset,
                       Dict(Put(preset_config, "planning",
                                Dict([k \in DOMAIN preset_config.planning.dict |->
                                        IF in_presets(k) THEN c1.planning.dict[k]
                                        ELSE preset_config.planning.dict[k]]))))))
     ELSE c1

\* lines 774-778: the mappings of config["planning"] the plan mode writes into
mode_planning_keys(plan_mode) ==
  IF plan_mode \in DOMAIN plan_mode_config
     /\ "planning" \in DOMAIN plan_mode_config[plan_mode]
  THEN DOMAIN plan_mode_config[plan_mode].planning ELSE {}

\* ---------------------------------------------------------------- initial state
InitCommon ==
  /\ exit = [c \in Conns |-> "none"]
  /\ ws_connected = [c \in Conns |-> TRUE]
  /\ original_stdout = [c \in Conns |-> Real]
  /\ sys_stdout = Real
  /\ icp_original = [c \in Conns |-> Real]
  /\ log_queue = [c \in Conns |-> << >>]
  /\ progress_queue = [c \in Conns |-> << >>]
  /\ pusher_task = [c \in Conns |-> "none"]
  /\ progress_pusher_task = [c \in Conns |-> "none"]
  /\ heartbeat_task = [c \in Conns |-> "none"]
  /\ registry = [t \in Topics \cup FalsyTopics |-> "absent"]
  /\ topic = [c \in Conns |-> "unset"]
  /\ task_id = [c \in Conns |-> NoTask]
  /\ config_bound = [c \in Conns |-> FALSE]
  /\ result = [c \in Conns |-> "unset"]
  /\ runs = [c \in Conns |-> 0]
  /\ writes = [c \in Conns |-> 0]
  /\ events = [c \in Conns |-> 0]
  /\ pings = [c \in Conns |-> 0]
  /\ inbox = [c \in Conns |-> << >>]
  /\ history = [c \in Conns |-> 0]
  /\ sent = [c \in Conns |-> << >>]
  /\ skipped = [c \in Conns |-> FALSE]
  /\ log_enqueued = [c \in Conns |-> << >>]
  /\ raise_mark = [c \in Conns |-> -1]
  /\ real_sink = << >>
  /\ persist_failed = [c \in Conns |-> "none"]
  /\ handoff_failed = [c \in Conns |-> {}]

\* no composition is followed step by step
ComposerIdle ==
  /\ data = [topic |-> "t1"]
  /\ loaded_config = EmptyDict
  /\ config = EmptyDict
  /\ enabled_tools = << >>
  /\ compose_pc = "off"
  /\ shared = EmptyDict

\* no configuration file is being loaded
LoaderIdle ==
  /\ main_config = EmptyDict
  /\ module_config = EmptyDict
  /\ merged_config = EmptyDict
  /\ loader_pc = "off"

\* no notebook is in use
NotebookIdle ==
  /\ sessions = << >>
  /\ clock = 0
  /\ last_call = [op |-> "none"]

ServicesIdle == LoaderIdle /\ NotebookIdle

\* one client connects; sends and hand-offs may fail
Init ==
  /\ pc = [c \in Conns |-> IF c = 1 THEN "idle" ELSE "off"]
  /\ faults = TRUE
  /\ InitCommon
  /\ ComposerIdle
  /\ ServicesIdle

\* every client connects; sends and hand-offs succeed
InitMulti ==
  /\ pc = [c \in Conns |-> "idle"]
  /\ faults = FALSE
  /\ InitCommon
  /\ ComposerIdle
  /\ ServicesIdle

\* what all connections together have done, against the bounds
RECURSIVE SumOver(_, _)
SumOver(f, S) ==
  IF S = {} THEN 0
  ELSE LET x == CHOOSE y \in S : TRUE IN f[x] + SumOver(f, S \ {x})
Total(f) == SumOver(f, Conns)
Activity == Total(writes) + Total(events) + Total(pings)
Budget == IF faults THEN MaxActivity ELSE MaxMultiActivity

\* the outcomes of a websocket send, and of a queue hand-off, in the scenario
IoOutcomes == IF faults THEN BOOLEAN ELSE {TRUE}
PutOutcomes == IF faults THEN BOOLEAN ELSE {TRUE}
ChunkKinds == IF faults THEN BOOLEAN ELSE {FALSE}
\* whether the notebook sync of lines 967-973 goes through
NotebookOutcomes == IF faults THEN BOOLEAN ELSE {TRUE}
\* The topics a handshake may carry: one already seen on another connection, or
\* the first one not yet seen (topics are interchangeable).
UsedTopics == {topic[c] : c \in Conns} \cap Topics
FreshIndexes == {i \in 1..Len(TopicOrder) : TopicOrder[i] \notin UsedTopics}
TopicChoices ==
  UsedTopics \cup {TopicOrder[i] : i \in {j \in FreshIndexes : \A k \in FreshIndexes : j <= k}}
HandshakeTopics == TopicChoices \cup FalsyTopics

\* a handler that only rejects an absent topic
topic_missing_only_none(t) == t = "missing"

\* line 664: `not topic`
topic_missing(t) == t \in FalsyTopics

\* what pipeline.run returns in the scenario
ResultKinds == {"none", "report", "path_ok", "path_bad", "path_unreadable", "no_path"}

\* the result behind each kind: its own report text, its final_report_path and
\* what is found at that path
OwnText == "report of the result"
FileText == "text of the report file"
result_of(kind) ==
  [ report |-> IF kind = "report" THEN OwnText ELSE "",
    final_report_path |-> IF kind = "no_path" THEN "" ELSE "reports/final.md",
    file |-> CASE kind \in {"report", "path_ok"} -> "readable"
               [] kind = "path_unreadable" -> "unreadable"
               [] OTHER -> "missing" ]

\* lines 933-941: the file is read only for an empty report with a path; a
\* missing file (exists() false) and a failing read (caught at 940) leave ""
report_content(r) ==
  IF r.report = "" /\ r.final_report_path # ""
  THEN (IF r.file = "readable" THEN FileText ELSE "")
  ELSE r.report

\* lines 945 and 955-962: what the two completion messages carry
ReportPathBody(c, r) == [conn |-> c, n |-> 0, ws |-> FALSE, path |-> r.final_report_path]
ResultBody(c, r) == [conn |-> c, n |-> 0, ws |-> FALSE, report |-> report_content(r)]
ResultOutcomes == IF faults THEN ResultKinds ELSE {"none", "report"}

\* ---------------------------------------------------------------- handler exits
\* `if pusher_task: pusher_task.cancel()` (lines 1003-1009)
cancel(t) == IF t = "none" THEN "none" ELSE "cancelled"

\* a cleanup that forgets the heartbeat
Cleanup_without_heartbeat(c) ==
  /\ pusher_task' = [pusher_task EXCEPT ![c] = cancel(@)]
  /\ progress_pusher_task' = [progress_pusher_task EXCEPT ![c] = cancel(@)]
  /\ UNCHANGED heartbeat_task

\* lines 1003-1009
Cleanup(c) ==
  /\ pusher_task' = [pusher_task EXCEPT ![c] = cancel(@)]
  /\ progress_pusher_task' = [progress_pusher_task EXCEPT ![c] = cancel(@)]
  /\ heartbeat_task' = [heartbeat_task EXCEPT ![c] = cancel(@)]

\* a completion whose logging fails after the update and falls into the error update
FinishCompleted_then_error(c) ==
  /\ registry' = update_task_status(update_task_status(registry, task_id[c], "completed"),
                                    task_id[c], "error")
  /\ sys_stdout' = restored_stdout(c)
  /\ Cleanup(c)
  /\ pc' = [pc EXCEPT ![c] = "done"]
  /\ exit' = [exit EXCEPT ![c] = "completed"]

\* lines 975-987 and 1003-1009: status completed, sys.stdout restored, loops cancelled
FinishCompleted(c) ==
  /\ registry' = update_task_status(registry, task_id[c], "completed")
  /\ sys_stdout' = restored_stdout(c)
  /\ Cleanup(c)
  /\ pc' = [pc EXCEPT ![c] = "done"]
  /\ exit' = [exit EXCEPT ![c] = "completed"]

\* lines 989-991: `except Exception` up to the await of safe_send, entered with
\* the send log s
ToErrorPath(c, s, ok) ==
  LET r == safe_send(ws_connected[c], s, Msg("error", NoBody(c)), ok) IN
  /\ sent' = [sent EXCEPT ![c] = r.sent]
  /\ ws_connected' = [ws_connected EXCEPT ![c] = r.alive]
  /\ skipped' = [skipped EXCEPT ![c] = @ \/ r.skip]
  /\ pc' = [pc EXCEPT ![c] = "err_status"]

\* ---------------------------------------------------------------- handshake
\* lines 622-631
Accept(c) ==
  /\ pc[c] = "idle"
  /\ pc' = [pc EXCEPT ![c] = "accepted"]
  /\ original_stdout' = [original_stdout EXCEPT ![c] = sys_stdout]
  /\ UNCHANGED << exit, ws_connected, sys_stdout, icp_original, log_queue,
                  progress_queue, pusher_task, progress_pusher_task,
                  heartbeat_task, registry, topic, task_id, config_bound, result, runs,
                  writes, events, pings, inbox, history, sent, skipped,
                  log_enqueued, raise_mark, real_sink, faults,
                  persist_failed, handoff_failed,
                  composer_vars, service_vars >>

\* line 648 raising: the client went away before the first message
HandshakeRecvFails(c) ==
  /\ pc[c] = "accepted"
  /\ \E ok \in IoOutcomes : ToErrorPath(c, sent[c], ok)
  /\ UNCHANGED << exit, original_stdout, sys_stdout, icp_original, log_queue,
                  progress_queue, pusher_task, progress_pusher_task,
                  heartbeat_task, registry, topic, task_id, config_bound, result, runs,
                  writes, events, pings, inbox, history, log_enqueued,
                  raise_mark, real_sink, faults,
                  persist_failed, handoff_failed,
                  composer_vars, service_vars >>

\* lines 648-666 with a falsy topic
HandshakeNoTopic(c) ==
  /\ pc[c] = "accepted"
  /\ \E t \in HandshakeTopics :
       /\ topic_missing(t)
       /\ topic' = [topic EXCEPT ![c] = t]
  /\ \E ok \in IoOutcomes :
       LET s1 == raw_send(sent[c], Msg("error", NoBody(c)), ok) IN
       IF ok
       THEN /\ sent' = [sent EXCEPT ![c] = s1]
            /\ pc' = [pc EXCEPT ![c] = "done"]
            /\ exit' = [exit EXCEPT ![c] = "no_topic"]
            /\ UNCHANGED << ws_connected, skipped >>
       ELSE /\ \E ok2 \in IoOutcomes : ToErrorPath(c, s1, ok2)
            /\ UNCHANGED exit
  /\ UNCHANGED << original_stdout, sys_stdout, icp_original, log_queue,
                  progress_queue, pusher_task, progress_pusher_task,
                  heartbeat_task, registry, task_id, config_bound, result, runs,
                  writes, events, pings, inbox, history, log_enqueued,
                  raise_mark, real_sink, faults,
                  persist_failed, handoff_failed,
                  composer_vars, service_vars >>

\* a handler that issues the task id without telling the client
Handshake_silent(c) ==
  /\ pc[c] = "accepted"
  /\ \E t \in HandshakeTopics :
       /\ ~topic_missing(t)
       /\ topic' = [topic EXCEPT ![c] = t]
       /\ task_id' = [task_id EXCEPT ![c] = generate_task_id(t)]
       /\ registry' = registry_after_generate(registry, generate_task_id(t))
  /\ pc' = [pc EXCEPT ![c] = "task_id_sent"]
  /\ UNCHANGED << sent, ws_connected, skipped >>
  /\ UNCHANGED << exit, original_stdout, sys_stdout, icp_original, log_queue,
                  progress_queue, pusher_task, progress_pusher_task,
                  heartbeat_task, config_bound, result, runs,
                  writes, events, pings, inbox, history, log_enqueued,
                  raise_mark, real_sink, faults,
                  persist_failed, handoff_failed,
                  composer_vars, service_vars >>

\* lines 648-673 with a topic
Handshake(c) ==
  /\ pc[c] = "accepted"
  /\ \E t \in HandshakeTopics, ok \in IoOutcomes :
       LET id == generate_task_id(t)
           s1 == raw_send(sent[c], Msg("task_id", NoBody(c)), ok) IN
       /\ ~topic_missing(t)
       /\ topic' = [topic EXCEPT ![c] = t]
       /\ task_id' = [task_id EXCEPT ![c] = id]
       /\ registry' = registry_after_generate(registry, id)
       /\ IF ok
          THEN /\ sent' = [sent EXCEPT ![c] = s1]
               /\ pc' = [pc EXCEPT ![c] = "task_id_sent"]
               /\ UNCHANGED << ws_connected, skipped >>
          ELSE \E ok2 \in IoOutcomes : ToErrorPath(c, s1, ok2)
  /\ UNCHANGED << exit, original_stdout, sys_stdout, icp_original, log_queue,
                  progress_queue, pusher_task, progress_pusher_task,
                  heartbeat_task, config_bound, result, runs,
                  writes, events, pings, inbox, history, log_enqueued,
                  raise_mark, real_sink, faults,
                  persist_failed, handoff_failed,
                  composer_vars, service_vars >>

\* lines 676-833 when get_llm_config raises ValueError
CredentialsFail(c) ==
  /\ pc[c] = "task_id_sent"
  /\ config_bound' = [config_bound EXCEPT ![c] = TRUE]
  /\ \E ok \in IoOutcomes :
       LET s1 == raw_send(sent[c], Msg("untyped", NoBody(c)), ok) IN
       IF ok
       THEN /\ sent' = [sent EXCEPT ![c] = s1]
            /\ pc' = [pc EXCEPT ![c] = "done"]
            /\ exit' = [exit EXCEPT ![c] = "cred_fail"]
            /\ UNCHANGED << ws_connected, skipped >>
       ELSE /\ \E ok2 \in IoOutcomes : ToErrorPath(c, s1, ok2)
            /\ UNCHANGED exit
  /\ UNCHANGED << original_stdout, sys_stdout, icp_original, log_queue,
                  progress_queue, pusher_task, progress_pusher_task,
                  heartbeat_task, registry, topic, task_id, result, runs,
                  writes, events, pings, inbox, history, log_enqueued,
                  raise_mark, real_sink, faults,
                  persist_failed, handoff_failed,
                  composer_vars, service_vars >>

\* a handler that serves a request from the run another connection has started
\* for the same task id
StartRun_deduplicated(c) ==
  /\ pc[c] = "task_id_sent"
  /\ config_bound' = [config_bound EXCEPT ![c] = TRUE]
  /\ IF \E d \in Conns : d # c /\ task_id[d] = task_id[c] /\ runs[d] > 0
     THEN /\ registry' = update_task_status(registry, task_id[c], "completed")
          /\ pc' = [pc EXCEPT ![c] = "done"]
          /\ exit' = [exit EXCEPT ![c] = "completed"]
          /\ UNCHANGED << pusher_task, progress_pusher_task, heartbeat_task,
                          icp_original, sys_stdout, sent, ws_connected, skipped,
                          runs >>
     ELSE /\ pusher_task' = [pusher_task EXCEPT ![c] = "running"]
          /\ progress_pusher_task' = [progress_pusher_task EXCEPT ![c] = "running"]
          /\ heartbeat_task' = [heartbeat_task EXCEPT ![c] = "running"]
          /\ icp_original' = [icp_original EXCEPT ![c] = sys_stdout]
          /\ sys_stdout' = c
          /\ \E ok \in IoOutcomes :
               LET r == safe_send(ws_connected[c], sent[c], Msg("status", NoBody(c)), ok) IN
               /\ sent' = [sent EXCEPT ![c] = r.sent]
               /\ ws_connected' = [ws_connected EXCEPT ![c] = r.alive]
               /\ skipped' = [skipped EXCEPT ![c] = @ \/ r.skip]
          /\ runs' = [runs EXCEPT ![c] = @ + 1]
          /\ pc' = [pc EXCEPT ![c] = "running"]
          /\ UNCHANGED << exit, registry >>
  /\ UNCHANGED << original_stdout, log_queue, progress_queue, topic, task_id,
                  result, writes, events, pings, inbox, history, log_enqueued,
                  raise_mark, real_sink, faults, persist_failed, handoff_failed,
                  composer_vars, service_vars >>

\* lines 676-929: config composed, credentials read, queues and loops created,
\* interceptor installed, `status: started` sent, pipeline.run entered
StartRun(c) ==
  /\ pc[c] = "task_id_sent"
  /\ config_bound' = [config_bound EXCEPT ![c] = TRUE]
  /\ pusher_task' = [pusher_task EXCEPT ![c] = "running"]
  /\ progress_pusher_task' = [progress_pusher_task EXCEPT ![c] = "running"]
  /\ heartbeat_task' = [heartbeat_task EXCEPT ![c] = "running"]
  /\ icp_original' = [icp_original EXCEPT ![c] = sys_stdout]
  /\ sys_stdout' = c
  /\ \E ok \in IoOutcomes :
       LET r == safe_send(ws_connected[c], sent[c], Msg("status", NoBody(c)), ok) IN
       /\ sent' = [sent EXCEPT ![c] = r.sent]
       /\ ws_connected' = [ws_connected EXCEPT ![c] = r.alive]
       /\ skipped' = [skipped EXCEPT ![c] = @ \/ r.skip]
  /\ runs' = [runs EXCEPT ![c] = @ + 1]
  /\ pc' = [pc EXCEPT ![c] = "running"]
  /\ UNCHANGED << exit, original_stdout, log_queue, progress_queue, registry,
                  topic, task_id, result, writes, events, pings, inbox, history,
                  log_enqueued, raise_mark, real_sink, faults,
                  persist_failed, handoff_failed,
                  composer_vars, service_vars >>

\* ---------------------------------------------------------------- pipeline
\* the pipeline prints a chunk: print -> sys.stdout.write (lines 902-913)
PipelineWrite(c) ==
  /\ pc[c] = "running"
  /\ Activity < Budget
  /\ \E ws \in ChunkKinds, put_ok \in PutOutcomes :
       LET chunk == Body(c, writes[c] + 1, ws) IN
       /\ real_sink' = Append(real_sink, chunk)
       /\ log_queue' = [d \in Conns |->
             queue_after_write(log_queue[d], d, sys_stdout, icp_original, chunk, put_ok)]
       /\ log_enqueued' = [d \in Conns |->
             queue_after_write(log_enqueued[d], d, sys_stdout, icp_original, chunk, put_ok)]
       /\ handoff_failed' = [d \in Conns |->
             IF InChain(d, sys_stdout, icp_original) /\ write_drops(chunk, put_ok)
             THEN handoff_failed[d] \cup {chunk} ELSE handoff_failed[d]]
  /\ writes' = [writes EXCEPT ![c] = @ + 1]
  /\ UNCHANGED << pc, exit, ws_connected, original_stdout, sys_stdout,
                  icp_original, progress_queue, pusher_task,
                  progress_pusher_task, heartbeat_task, registry, topic, task_id,
                  config_bound, result, runs, events, pings, inbox, history,
                  sent, skipped, raise_mark, faults, persist_failed,
                  composer_vars, service_vars >>

\* the pipeline reports progress: progress_callback (lines 840-845)
PipelineProgress(c) ==
  /\ pc[c] = "running"
  /\ Activity < Budget
  /\ \E put_ok \in PutOutcomes :
       progress_queue' = [progress_queue EXCEPT ![c] =
          IF put_ok THEN Append(@, Body(c, events[c] + 1, FALSE)) ELSE @]
  /\ events' = [events EXCEPT ![c] = @ + 1]
  /\ UNCHANGED << pc, exit, ws_connected, original_stdout, sys_stdout,
                  icp_original, log_queue, pusher_task, progress_pusher_task,
                  heartbeat_task, registry, topic, task_id, config_bound, result,
                  runs, writes, pings, inbox, history, sent, skipped,
                  log_enqueued, raise_mark, real_sink, faults,
                  persist_failed, handoff_failed,
                  composer_vars, service_vars >>

\* line 929 returns; lines 931-945, or 975-987 for a falsy result
PipelineReturn(c) ==
  /\ pc[c] = "running"
  /\ \E res \in ResultOutcomes :
       /\ result' = [result EXCEPT ![c] = res]
       /\ IF res = "none"
          THEN /\ FinishCompleted(c)
               /\ UNCHANGED << sent, ws_connected, skipped >>
          ELSE /\ \E ok \in IoOutcomes :
                    LET r == safe_send(ws_connected[c], sent[c],
                                       Msg("report_path", ReportPathBody(c, result_of(res))),
                                       ok) IN
                    /\ sent' = [sent EXCEPT ![c] = r.sent]
                    /\ ws_connected' = [ws_connected EXCEPT ![c] = r.alive]
                    /\ skipped' = [skipped EXCEPT ![c] = @ \/ r.skip]
               /\ pc' = [pc EXCEPT ![c] = "after_report_path"]
               /\ UNCHANGED << exit, registry, sys_stdout, pusher_task,
                               progress_pusher_task, heartbeat_task >>
  /\ UNCHANGED << original_stdout, icp_original, log_queue, progress_queue,
                  topic, task_id, config_bound, runs, writes, events, pings,
                  inbox, history, log_enqueued, raise_mark, real_sink, faults,
                  persist_failed, handoff_failed,
                  composer_vars, service_vars >>

\* line 929 raises an Exception; lines 986-991
PipelineRaise(c) ==
  /\ pc[c] = "running"
  /\ raise_mark' = [raise_mark EXCEPT ![c] = Len(log_enqueued[c])]
  /\ sys_stdout' = restored_stdout(c)
  /\ \E ok \in IoOutcomes : ToErrorPath(c, sent[c], ok)
  /\ UNCHANGED << exit, original_stdout, icp_original, log_queue,
                  progress_queue, pusher_task, progress_pusher_task,
                  heartbeat_task, registry, topic, task_id, config_bound, result,
                  runs, writes, events, pings, inbox, history, log_enqueued,
                  real_sink, faults,
                  persist_failed, handoff_failed,
                  composer_vars, service_vars >>

\* a handler that reads the frame and stops the pipeline
PipelineCancelled_on_frame(c) ==
  /\ pc[c] = "running"
  /\ inbox[c] # << >>
  /\ inbox' = [inbox EXCEPT ![c] = Tail(@)]
  /\ sys_stdout' = restored_stdout(c)
  /\ Cleanup(c)
  /\ pc' = [pc EXCEPT ![c] = "done"]
  /\ exit' = [exit EXCEPT ![c] = "task_cancelled"]
  /\ UNCHANGED << ws_connected, original_stdout, icp_original, log_queue,
                  progress_queue, registry, topic, task_id, config_bound, result,
                  runs, writes, events, pings, history, sent, skipped,
                  log_enqueued, raise_mark, real_sink, faults, persist_failed, handoff_failed,
                  composer_vars, service_vars >>

\* a handler that announces a cancellation to the client and the registry
PipelineCancelled_announced(c) ==
  /\ pc[c] = "running"
  /\ sys_stdout' = restored_stdout(c)
  /\ Cleanup(c)
  /\ \E ok \in IoOutcomes :
       LET r == safe_send(ws_connected[c], sent[c], Msg("cancelled", NoBody(c)), ok) IN
       /\ sent' = [sent EXCEPT ![c] = r.sent]
       /\ ws_connected' = [ws_connected EXCEPT ![c] = r.alive]
       /\ skipped' = [skipped EXCEPT ![c] = @ \/ r.skip]
  /\ registry' = update_task_status(registry, task_id[c], "cancelled")
  /\ pc' = [pc EXCEPT ![c] = "done"]
  /\ exit' = [exit EXCEPT ![c] = "task_cancelled"]
  /\ UNCHANGED << original_stdout, icp_original, log_queue,
                  progress_queue, topic, task_id, config_bound, result,
                  runs, writes, events, pings, inbox, history,
                  log_enqueued, raise_mark, real_sink, faults,
                  persist_failed, handoff_failed,
                  composer_vars, service_vars >>

\* line 929 ends with CancelledError (the handler's task is cancelled by the
\* server): not an Exception, only the finally blocks run (986-987, 1003-1009)
PipelineCancelled(c) ==
  /\ pc[c] = "running"
  /\ sys_stdout' = restored_stdout(c)
  /\ Cleanup(c)
  /\ pc' = [pc EXCEPT ![c] = "done"]
  /\ exit' = [exit EXCEPT ![c] = "task_cancelled"]
  /\ UNCHANGED << ws_connected, original_stdout, icp_original, log_queue,
                  progress_queue, registry, topic, task_id, config_bound, result,
                  runs, writes, events, pings, inbox, history, sent, skipped,
                  log_enqueued, raise_mark, real_sink, faults,
                  persist_failed, handoff_failed,
                  composer_vars, service_vars >>

\* _persist_research_session (lines 70-163): the notebook sync runs inside a
\* try/except that logs and returns, so a failure is only recorded
persist_research_session(mark, nb_ok) == IF nb_ok THEN mark ELSE "notebook"

\* lines 947-973 after the await of line 945: history entry (not guarded),
\* `result` message; a failed send goes on to lines 966-987 without suspending
AfterReportPath(c) ==
  /\ pc[c] = "after_report_path"
  /\ \E hist_ok \in BOOLEAN, ok \in IoOutcomes :
       IF hist_ok
       THEN LET r == safe_send(ws_connected[c], sent[c],
                               Msg("result", ResultBody(c, result_of(result[c]))), ok) IN
            /\ history' = [history EXCEPT ![c] = @ + 1]
            /\ sent' = [sent EXCEPT ![c] = r.sent]
            /\ ws_connected' = [ws_connected EXCEPT ![c] = r.alive]
            /\ skipped' = [skipped EXCEPT ![c] = @ \/ r.skip]
            /\ IF r.ret
               THEN /\ pc' = [pc EXCEPT ![c] = "flush"]
                    /\ UNCHANGED << exit, registry, sys_stdout, pusher_task,
                                    progress_pusher_task, heartbeat_task,
                                    persist_failed >>
               ELSE /\ \E nb_ok \in NotebookOutcomes :
                         persist_failed' = [persist_failed EXCEPT ![c] =
                                              persist_research_session(@, nb_ok)]
                    /\ FinishCompleted(c)
       ELSE /\ persist_failed' = [persist_failed EXCEPT ![c] = "history"]
            /\ sys_stdout' = restored_stdout(c)
            /\ ToErrorPath(c, sent[c], ok)
            /\ UNCHANGED << history, exit, registry, pusher_task,
                            progress_pusher_task, heartbeat_task >>
  /\ UNCHANGED << original_stdout, icp_original, log_queue, progress_queue,
                  topic, task_id, config_bound, result, runs, writes, events,
                  pings, inbox, log_enqueued, raise_mark, real_sink, faults,
                  handoff_failed,
                  composer_vars, service_vars >>

\* a handler whose notebook sync is not guarded: its failure reaches line 989
Flush_persist_unguarded(c) ==
  /\ pc[c] = "flush"
  /\ \E nb_ok \in NotebookOutcomes, ok \in IoOutcomes :
       /\ persist_failed' = [persist_failed EXCEPT ![c] =
                               persist_research_session(@, nb_ok)]
       /\ IF nb_ok
          THEN /\ FinishCompleted(c)
               /\ UNCHANGED << ws_connected, sent, skipped >>
          ELSE /\ ToErrorPath(c, sent[c], ok)
               /\ sys_stdout' = restored_stdout(c)
               /\ UNCHANGED << exit, registry, pusher_task, progress_pusher_task,
                               heartbeat_task >>
  /\ UNCHANGED << original_stdout, icp_original, log_queue,
                  progress_queue, topic, task_id, config_bound, result, runs,
                  writes, events, pings, inbox, history,
                  log_enqueued, raise_mark, real_sink, faults,
                  handoff_failed,
                  composer_vars, service_vars >>

\* lines 964-987 after the sleep of line 964
Flush(c) ==
  /\ pc[c] = "flush"
  /\ \E nb_ok \in NotebookOutcomes :
       persist_failed' = [persist_failed EXCEPT ![c] =
                            persist_research_session(@, nb_ok)]
  /\ FinishCompleted(c)
  /\ UNCHANGED << ws_connected, original_stdout, icp_original, log_queue,
                  progress_queue, topic, task_id, config_bound, result, runs,
                  writes, events, pings, inbox, history, sent, skipped,
                  log_enqueued, raise_mark, real_sink, faults,
                  handoff_failed,
                  composer_vars, service_vars >>

\* an error path that leaves the registry alone
status_after_error_none(reg, c) == reg

\* lines 993-1002: `config` unbound makes line 995 raise, which line 1001
\* swallows before the status update
status_after_error(reg, c) ==
  IF config_bound[c] THEN update_task_status(reg, task_id[c], "error") ELSE reg

\* lines 991-1009 after the await of line 990
ErrStatus(c) ==
  /\ pc[c] = "err_status"
  /\ registry' = status_after_error(registry, c)
  /\ Cleanup(c)
  /\ pc' = [pc EXCEPT ![c] = "done"]
  /\ exit' = [exit EXCEPT ![c] = "error"]
  /\ UNCHANGED << ws_connected, original_stdout, sys_stdout, icp_original,
                  log_queue, progress_queue, topic, task_id, config_bound,
                  result, runs, writes, events, pings, inbox, history, sent,
                  skipped, log_enqueued, raise_mark, real_sink, faults,
                  persist_failed, handoff_failed,
                  composer_vars, service_vars >>

\* ---------------------------------------------------------------- loops
\* a queue that hands out its newest item
queue_get_newest(q) == [item |-> q[Len(q)], rest |-> SubSeq(q, 1, Len(q) - 1)]

\* asyncio.Queue.get (lines 859, 872): the oldest item leaves the queue
queue_get(q) == [item |-> Head(q), rest |-> Tail(q)]

\* a log loop that ends when its send was not attempted
LogPush_stops_when_dead(c) ==
  /\ pusher_task[c] = "running"
  /\ log_queue[c] # << >>
  /\ \E ok \in IoOutcomes :
       LET r == safe_send(ws_connected[c], sent[c],
                          Msg("log", queue_get(log_queue[c]).item), ok) IN
       /\ sent' = [sent EXCEPT ![c] = r.sent]
       /\ ws_connected' = [ws_connected EXCEPT ![c] = r.alive]
       /\ skipped' = [skipped EXCEPT ![c] = @ \/ r.skip]
       /\ pusher_task' = [pusher_task EXCEPT ![c] = IF r.skip THEN "stopped" ELSE @]
  /\ log_queue' = [log_queue EXCEPT ![c] = queue_get(@).rest]
  /\ UNCHANGED << pc, exit, original_stdout, sys_stdout, icp_original,
                  progress_queue, progress_pusher_task,
                  heartbeat_task, registry, topic, task_id, config_bound, result,
                  runs, writes, events, pings, inbox, history, log_enqueued,
                  raise_mark, real_sink, faults,
                  persist_failed, handoff_failed,
                  composer_vars, service_vars >>

\* log_pusher, one iteration (lines 857-863)
LogPush(c) ==
  /\ pusher_task[c] = "running"
  /\ log_queue[c] # << >>
  /\ \E ok \in IoOutcomes :
       LET r == safe_send(ws_connected[c], sent[c],
                          Msg("log", queue_get(log_queue[c]).item), ok) IN
       /\ sent' = [sent EXCEPT ![c] = r.sent]
       /\ ws_connected' = [ws_connected EXCEPT ![c] = r.alive]
       /\ skipped' = [skipped EXCEPT ![c] = @ \/ r.skip]
  /\ log_queue' = [log_queue EXCEPT ![c] = queue_get(@).rest]
  /\ UNCHANGED << pc, exit, original_stdout, sys_stdout, icp_original,
                  progress_queue, pusher_task, progress_pusher_task,
                  heartbeat_task, registry, topic, task_id, config_bound, result,
                  runs, writes, events, pings, inbox, history, log_enqueued,
                  raise_mark, real_sink, faults,
                  persist_failed, handoff_failed,
                  composer_vars, service_vars >>

\* progress_pusher, one iteration (lines 870-876)
ProgressPush(c) ==
  /\ progress_pusher_task[c] = "running"
  /\ progress_queue[c] # << >>
  /\ \E ok \in IoOutcomes :
       LET r == safe_send(ws_connected[c], sent[c],
                          Msg("progress", queue_get(progress_queue[c]).item), ok) IN
       /\ sent' = [sent EXCEPT ![c] = r.sent]
       /\ ws_connected' = [ws_connected EXCEPT ![c] = r.alive]
       /\ skipped' = [skipped EXCEPT ![c] = @ \/ r.skip]
  /\ progress_queue' = [progress_queue EXCEPT ![c] = queue_get(@).rest]
  /\ UNCHANGED << pc, exit, original_stdout, sys_stdout, icp_original,
                  log_queue, pusher_task, progress_pusher_task,
                  heartbeat_task, registry, topic, task_id, config_bound, result,
                  runs, writes, events, pings, inbox, history, log_enqueued,
                  raise_mark, real_sink, faults,
                  persist_failed, handoff_failed,
                  composer_vars, service_vars >>

\* heartbeat, one iteration (lines 887-892): safe_send never raises, so the
\* loop goes round again whatever the send did
Heartbeat(c) ==
  /\ heartbeat_task[c] = "running"
  /\ Activity < Budget
  /\ \E ok \in IoOutcomes :
       LET r == safe_send(ws_connected[c], sent[c],
                          Msg("ping", Body(c, pings[c] + 1, FALSE)), ok) IN
       /\ sent' = [sent EXCEPT ![c] = r.sent]
       /\ ws_connected' = [ws_connected EXCEPT ![c] = r.alive]
       /\ skipped' = [skipped EXCEPT ![c] = @ \/ r.skip]
  /\ pings' = [pings EXCEPT ![c] = @ + 1]
  /\ UNCHANGED << pc, exit, original_stdout, sys_stdout, icp_original,
                  log_queue, progress_queue, pusher_task, progress_pusher_task,
                  heartbeat_task, registry, topic, task_id, config_bound, result,
                  runs, writes, events, inbox, history, log_enqueued,
                  raise_mark, real_sink, faults,
                  persist_failed, handoff_failed,
                  composer_vars, service_vars >>

\* ---------------------------------------------------------------- client
\* the client sends {type: "cancel"} during the run; nothing in lines 920-987
\* reads the socket, so the frame stays unread
ClientCancel(c) ==
  /\ pc[c] = "running"
  /\ inbox[c] = << >>
  /\ inbox' = [inbox EXCEPT ![c] = Append(@, "cancel")]
  /\ UNCHANGED << pc, exit, ws_connected, original_stdout, sys_stdout,
                  icp_original, log_queue, progress_queue, pusher_task,
                  progress_pusher_task, heartbeat_task, registry, topic, task_id,
                  config_bound, result, runs, writes, events, pings, history,
                  sent, skipped, log_enqueued, raise_mark, real_sink, faults,
                  persist_failed, handoff_failed,
                  composer_vars, service_vars >>

\* what else may arrive during the run: a frame of another shape, or the
\* disconnect event of a dropped connection
OtherFrames == {"other", "disconnect"}

\* the client sends something else, or goes away, during the run; lines 920-987
\* never call receive, so the event stays unread as well
ClientOther(c) ==
  /\ pc[c] = "running"
  /\ inbox[c] = << >>
  /\ \E f \in OtherFrames : inbox' = [inbox EXCEPT ![c] = Append(@, f)]
  /\ UNCHANGED << pc, exit, ws_connected, original_stdout, sys_stdout,
                  icp_original, log_queue, progress_queue, pusher_task,
                  progress_pusher_task, heartbeat_task, registry, topic, task_id,
                  config_bound, result, runs, writes, events, pings, history,
                  sent, skipped, log_enqueued, raise_mark, real_sink, faults,
                  persist_failed, handoff_failed,
                  composer_vars, service_vars >>

\* ---------------------------------------------------------------- specification
Next ==
  \E c \in Conns :
    \/ Accept(c)
    \/ HandshakeRecvFails(c)
    \/ HandshakeNoTopic(c)
    \/ Handshake(c)
    \/ CredentialsFail(c)
    \/ StartRun(c)
    \/ PipelineWrite(c)
    \/ PipelineProgress(c)
    \/ PipelineReturn(c)
    \/ PipelineRaise(c)
    \/ PipelineCancelled(c)
    \/ AfterReportPath(c)
    \/ Flush(c)
    \/ ErrStatus(c)
    \/ LogPush(c)
    \/ ProgressPush(c)
    \/ Heartbeat(c)
    \/ ClientCancel(c)
    \/ ClientOther(c)

Spec == Init /\ [][Next]_vars

\* Simultaneous connections: the handlers' own steps, the pipelines' output and
\* the log loops.  The progress and heartbeat loops and the client's frames
\* touch neither sys.stdout, the log queues nor the registry.
NextMulti ==
  \E c \in Conns :
    \/ Accept(c)
    \/ HandshakeNoTopic(c)
    \/ Handshake(c)
    \/ CredentialsFail(c)
    \/ StartRun(c)
    \/ PipelineWrite(c)
    \/ PipelineReturn(c)
    \/ PipelineRaise(c)
    \/ PipelineCancelled(c)
    \/ AfterReportPath(c)
    \/ Flush(c)
    \/ ErrStatus(c)
    \/ LogPush(c)

SpecMulti == InitMulti /\ [][NextMulti]_vars

\* ---------------------------------------------------------------- composition, step by step
\* The handshakes: a topic, and each optional field absent or with one of its values.
Tools == {"RAG", "Paper", "Web"}
ToolLists == UNION {[1..n -> Tools] : n \in 0..MaxToolsLen}
PlanModes == {"quick", "medium", "deep", "auto", "turbo"}
PresetNames == {"quick", "nightly"}
ResearchModes == {"deep"}

RequestsWith(S, k, Vals) == S \cup {Put(d, k, v) : d \in S, v \in Vals}
Requests ==
  RequestsWith(RequestsWith(RequestsWith(RequestsWith(RequestsWith(
    {[topic |-> "t1"]},
    "plan_mode", PlanModes), "enabled_tools", ToolLists), "preset", PresetNames),
    "research_mode", ResearchModes), "skip_rephrase", {TRUE})

\* What load_config() may return: with or without sections of its own, module
\* defaults under `research`, and a table of legacy presets.
OwnSections ==
  [ planning |-> Dict([decompose |-> Dict([mode |-> Str("manual"),
                                          initial_subtopics |-> Num(3),
                                          max_depth |-> Num(2)])]),
    researching |-> Dict([max_iterations |-> Num(9),
                          iteration_mode |-> Str("adaptive"),
                          execution_mode |-> Str("series"),
                          enable_web_search |-> Bool(FALSE),
                          enable_rag_naive |-> Bool(TRUE),
                          rag |-> Dict([mode |-> Str("hybrid")])]),
    reporting |-> Dict([report_type |-> Str("full")]) ]

ResearchDefaults ==
  [ research |-> Dict(
      [ planning |-> Dict([decompose |-> Dict([mode |-> Str("auto"),
                                              auto_max_subtopics |-> Num(4)]),
                           rephrase |-> Dict([enabled |-> Bool(TRUE)]),
                           language |-> Str("en")]),
        researching |-> Dict([max_iterations |-> Num(5),
                              max_parallel_topics |-> Num(2),
                              rag |-> Dict([mode |-> Str("naive"),
                                            top_k |-> Num(5)])]),
        reporting |-> Dict([enable_citation_list |-> Bool(TRUE)]) ]) ]

PresetsTable ==
  [ presets |-> Dict(
      [ quick |-> Dict(
          [ planning |-> Dict([decompose |-> Dict([initial_subtopics |-> Num(1)])]),
            researching |-> Dict([max_iterations |-> Num(1),
                                  enable_web_search |-> Bool(FALSE),
                                  enable_paper_search |-> Bool(TRUE),
                                  enable_run_code |-> Bool(FALSE)]),
            tools |-> Dict([web |-> Bool(FALSE)]),
            label |-> Str("legacy") ]) ]) ]

\* a loaded config whose reporting section is a key without content
NullReporting == [reporting |-> Null]

BaseConfigs ==
  {update(update(a, b), c) : a \in {EmptyDict, OwnSections, NullReporting},
                            b \in {EmptyDict, ResearchDefaults},
                            c \in {EmptyDict, PresetsTable}}

InitCompose ==
  /\ pc = [c \in Conns |-> "off"]
  /\ faults = FALSE
  /\ InitCommon
  /\ data \in Requests
  /\ loaded_config \in BaseConfigs
  /\ config = EmptyDict
  /\ enabled_tools = << >>
  /\ compose_pc = "handshake"
  /\ shared = EmptyDict
  /\ ServicesIdle

\* lines 648-676
ReadHandshake ==
  /\ compose_pc = "handshake"
  /\ enabled_tools' = enabled_tools_of(data)
  /\ config' = loaded_config
  /\ compose_pc' = "loaded"
  /\ UNCHANGED << data, loaded_config, shared, handler_vars, service_vars >>

\* lines 690-746; an exception ends the composition (line 989)
InitSections ==
  /\ compose_pc = "loaded"
  /\ IF init_raises(config)
     THEN /\ compose_pc' = "raised"
          /\ UNCHANGED << config, shared >>
     ELSE /\ config' = init_sections(config)
          /\ shared' = shared_after_init(config)
          /\ compose_pc' = "sections"
  /\ UNCHANGED << data, loaded_config, enabled_tools, handler_vars, service_vars >>

\* lines 752-781
ApplyPlanMode ==
  /\ compose_pc = "sections"
  /\ config' = write_through(apply_plan_mode(config, plan_mode_of(data)), shared,
                             mode_planning_keys(plan_mode_of(data)), preset_of(data))
  /\ compose_pc' = "plan_mode"
  /\ UNCHANGED << data, loaded_config, enabled_tools, shared, handler_vars, service_vars >>

\* lines 783-788
ApplyPreset ==
  /\ compose_pc = "plan_mode"
  /\ config' = apply_preset(config, preset_of(data))
  /\ shared' = shared_after_preset(config, preset_of(data), shared)
  /\ compose_pc' = "preset"
  /\ UNCHANGED << data, loaded_config, enabled_tools, handler_vars, service_vars >>

\* lines 790-803
ApplyTools ==
  /\ compose_pc = "preset"
  /\ config' = apply_tools(config, enabled_tools)
  /\ compose_pc' = "tools"
  /\ UNCHANGED << data, loaded_config, enabled_tools, shared, handler_vars, service_vars >>

\* lines 805-823
ApplyLegacyFields ==
  /\ compose_pc = "tools"
  /\ config' = apply_output_paths(
                 write_through(
                   apply_skip_rephrase(
                     apply_research_mode(config, research_mode_of(data)),
                     skip_rephrase_of(data)),
                   shared,
                   IF skip_rephrase_of(data) THEN {"rephrase"} ELSE {},
                   preset_of(data)))
  /\ compose_pc' = "composed"
  /\ UNCHANGED << data, loaded_config, enabled_tools, shared, handler_vars, service_vars >>

NextCompose ==
  \/ ReadHandshake
  \/ InitSections
  \/ ApplyPlanMode
  \/ ApplyPreset
  \/ ApplyTools
  \/ ApplyLegacyFields

SpecCompose == InitCompose /\ [][NextCompose]_vars

\* ---------------------------------------------------------------- configuration loader
\* One call of _deep_merge(base, override), written as what it leaves behind:
\* the mapping it returns and the two mappings it was given, as they are after
\* the call.  Line 38 copies base one level deep, so result[key] is base's own
\* object when line 43 hands it to the recursive call as its base; override's
\* objects are only stored (line 46), never written into.

\* a merge that works on base itself instead of a copy of it
RECURSIVE _deep_merge_in_place(_, _)
_deep_merge_in_place(base, override) ==
  LET both(k) == /\ k \in DOMAIN base /\ k \in DOMAIN override
                 /\ IsDict(base[k]) /\ IsDict(override[k])
      merged == [k \in DOMAIN base \cup DOMAIN override |->
                   IF k \notin DOMAIN override THEN base[k]
                   ELSE IF both(k)
                        THEN Dict(_deep_merge_in_place(base[k].dict, override[k].dict).result)
                        ELSE override[k]]
  IN [result |-> merged, base |-> merged, override |-> override]

\* loader.py lines 27-48
RECURSIVE _deep_merge(_, _)
_deep_merge(base, override) ==
  LET both(k) == /\ k \in DOMAIN base /\ k \in DOMAIN override
                 /\ IsDict(base[k]) /\ IsDict(override[k])
      sub(k) == _deep_merge(base[k].dict, override[k].dict)
  IN [ result |-> [k \in DOMAIN base \cup DOMAIN override |->
                     IF k \notin DOMAIN override THEN base[k]
                     ELSE IF both(k) THEN Dict(sub(k).result)
                     ELSE override[k]],
       base |-> [k \in DOMAIN base |-> IF both(k) THEN Dict(sub(k).base) ELSE base[k]],
       override |-> override ]

\* What the two files may hold (lines 60-82; a missing or failing file is the
\* empty mapping): mappings over two top-level keys and one key further down,
\* nested up to MaxMergeDepth, whose plain values tell the two files apart.
MergeKeys == {"research", "system"}
NestedKeys == {"planning"}
PartialMaps(Keys, Vals) == UNION {[S -> Vals] : S \in SUBSET Keys}
RECURSIVE FileMappings(_, _, _)
FileMappings(Keys, leaf, depth) ==
  IF depth = 0 THEN {}
  ELSE PartialMaps(Keys, {leaf} \cup {Dict(m) : m \in FileMappings(NestedKeys, leaf, depth - 1)})
MainConfigs == FileMappings(MergeKeys, Str("main"), MaxMergeDepth)
ModuleConfigs == FileMappings(MergeKeys, Str("module"), MaxMergeDepth)

InitMerge ==
  /\ pc = [c \in Conns |-> "off"]
  /\ faults = FALSE
  /\ InitCommon
  /\ ComposerIdle
  /\ main_config \in MainConfigs
  /\ module_config \in ModuleConfigs
  /\ merged_config = EmptyDict
  /\ loader_pc = "loaded"
  /\ NotebookIdle

\* loader.py line 88
Merge ==
  /\ loader_pc = "loaded"
  /\ LET run == _deep_merge(main_config, module_config) IN
     /\ merged_config' = run.result
     /\ main_config' = run.base
     /\ module_config' = run.override
  /\ loader_pc' = "merged"
  /\ UNCHANGED << handler_vars, composer_vars, notebook_vars >>

NextMerge == Merge

SpecMerge == InitMerge /\ [][NextMerge]_vars

\* ---------------------------------------------------------------- notebook sessions
\* A session, stored or as a snapshot, has the keys of SessionSnapshot
\* (notebook.py 323-331); None is the empty string, 0 for a time, NoTitle for a
\* title.  A title is a time label with a text: a given title has no label.
Source(id, type, title, url, content) ==
  [id |-> id, type |-> type, title |-> title, url |-> url, content |-> content]
IsReport(source) == source.type = "report"
NotReport(source) == source.type # "report"

Title(time_label, text) == [time |-> time_label, text |-> text]
NoTitle == Title(0, "")
Unnamed == Title(0, "unnamed")            \* the placeholder title of line 184

Message(role, content) == [role |-> role, content |-> content]
ReportMarkers == {"research finished"}    \* the contents holding the marker of lines 193, 197
HasMarker(messages) == \E i \in 1..Len(messages) : messages[i].content \in ReportMarkers
IsUserText(msg) == msg.role = "user" /\ msg.content # ""

\* lines 141-150
_derive_session_title(session, now) ==
  LET users == SelectSeq(session.messages, IsUserText) IN
  Title(IF session.created_at # 0 THEN session.created_at ELSE now,
        IF users = << >> THEN "" ELSE users[1].content)

\* lines 152-157: the stored sessions in the order of created_at (a stable sort)
RECURSIVE list_sessions(_)
list_sessions(stored) ==
  IF stored = << >> THEN << >>
  ELSE LET front == list_sessions(SubSeq(stored, 1, Len(stored) - 1))
           last == stored[Len(stored)]
           k == Cardinality({i \in 1..Len(front) : front[i].created_at <= last.created_at})
       IN SubSeq(front, 1, k) \o << last >> \o SubSeq(front, k + 1, Len(front))

\* lines 174-176: the first stored session with the id, 0 for None
existing_index(stored, session_id) ==
  IF \E i \in 1..Len(stored) : stored[i].session_id = session_id
  THEN CHOOSE i \in 1..Len(stored) :
         /\ stored[i].session_id = session_id
         /\ \A j \in 1..(i - 1) : stored[j].session_id # session_id
  ELSE 0

\* line 171 (neither caller passes an "id" key)
session_id_of(session, uuid) ==
  IF session.session_id # "" THEN session.session_id ELSE uuid

\* an upsert that stores the snapshot's sources and report as they come
merged_session_as_given(stored, session, now, uuid) ==
  LET session_id == session_id_of(session, uuid)
      idx == existing_index(stored, session_id)
      created_at == IF idx # 0 THEN stored[idx].created_at ELSE session.created_at
      incoming_title == IF session.title = Unnamed THEN NoTitle ELSE session.title
  IN [ session_id |-> session_id,
       title |-> IF incoming_title # NoTitle THEN incoming_title
                 ELSE _derive_session_title(session, now),
       messages |-> session.messages,
       sources |-> session.sources,
       research_report |-> session.research_report,
       research_state |-> session.research_state,
       created_at |-> IF created_at # 0 THEN created_at ELSE now,
       updated_at |-> IF session.updated_at # 0 THEN session.updated_at ELSE now ]

\* lines 171-219: the session that is stored
merged_session(stored, session, now, uuid) ==
  LET session_id == session_id_of(session, uuid)
      idx == existing_index(stored, session_id)
      created_at == IF idx # 0 THEN stored[idx].created_at ELSE session.created_at
      incoming_title == IF session.title = Unnamed THEN NoTitle ELSE session.title
      incoming_report ==
        IF idx # 0 /\ session.research_report = "" /\ stored[idx].research_report # ""
        THEN stored[idx].research_report ELSE session.research_report
      incoming_messages ==
        IF idx # 0 /\ HasMarker(stored[idx].messages) /\ ~HasMarker(session.messages)
        THEN stored[idx].messages ELSE session.messages
      incoming_sources ==
        IF idx # 0 /\ SelectSeq(stored[idx].sources, IsReport) # << >>
           /\ SelectSeq(session.sources, IsReport) = << >>
        THEN session.sources \o SelectSeq(stored[idx].sources, IsReport)
        ELSE session.sources
  IN [ session_id |-> session_id,
       title |-> IF incoming_title # NoTitle THEN incoming_title
                 ELSE _derive_session_title(session, now),
       messages |-> incoming_messages,
       sources |-> incoming_sources,
       research_report |-> incoming_report,
       research_state |-> session.research_state,
       created_at |-> IF created_at # 0 THEN created_at ELSE now,
       updated_at |-> IF session.updated_at # 0 THEN session.updated_at ELSE now ]

\* an upsert that always adds an entry
upsert_session_appending(stored, session, now, uuid) ==
  Append(stored, merged_session(stored, session, now, uuid))

\* lines 166-228: what is saved
upsert_session(stored, session, now, uuid) ==
  LET idx == existing_index(stored, session_id_of(session, uuid)) IN
  IF idx = 0
  THEN Append(stored, merged_session(stored, session, now, uuid))
  ELSE [stored EXCEPT ![idx] = merged_session(stored, session, now, uuid)]

\* research.py lines 90-100: a source is added unless one with its key is there
source_key(item) ==
  << item.type, IF item.url # "" THEN item.url
                ELSE IF item.title # "" THEN item.title ELSE item.id >>
add_source(sources, item) ==
  IF \E i \in 1..Len(sources) : source_key(sources[i]) = source_key(item)
  THEN sources ELSE Append(sources, item)
RECURSIVE add_sources(_, _)
add_sources(sources, items) ==
  IF items = << >> THEN sources
  ELSE add_sources(add_source(sources, Head(items)), Tail(items))

\* research.py lines 103, 106-114, 119-128, 132-146, 150-159: the sources made of
\* the report and of the entries of the result's metadata
ReportTitle(research_topic) == IF research_topic # "" THEN "research report - " \o research_topic ELSE "research report"
report_source(report_text, research_topic) ==
  Source("report", "report", ReportTitle(research_topic), "", report_text)
FirstText(a, b, c) == IF a # "" THEN a ELSE IF b # "" THEN b ELSE c
web_source(entry) ==
  Source("research-web", "web", FirstText(entry.title, entry.url, "web source"),
         entry.url, entry.content)
rag_source(entry) ==
  Source("research-rag", "kb", FirstText(entry.title, entry.source, "kb source"),
         entry.url, entry.content)
misc_source(entry) ==
  Source(FirstText(entry.id, "research-src", ""), FirstText(entry.type, "web", ""),
         FirstText(entry.title, entry.url, "source"), entry.url, entry.content)

\* a sync that leaves the report sources of the session where they are
research_sources_keeping_reports(sources, report_text, research_topic, metadata) ==
  LET s1 == IF report_text # ""
            THEN add_source(sources, report_source(report_text, research_topic))
            ELSE sources
  IN IF metadata.given
     THEN add_sources(add_sources(add_sources(s1,
            [i \in 1..Len(metadata.web_sources) |-> web_source(metadata.web_sources[i])]),
            [i \in 1..Len(metadata.rag_sources) |-> rag_source(metadata.rag_sources[i])]),
            [i \in 1..Len(metadata.sources) |-> misc_source(metadata.sources[i])])
     ELSE s1

\* research.py lines 88-160
research_sources(sources, report_text, research_topic, metadata) ==
  LET s1 == IF report_text # ""
            THEN add_source(SelectSeq(sources, NotReport),
                            report_source(report_text, research_topic))
            ELSE sources
  IN IF metadata.given
     THEN add_sources(add_sources(add_sources(s1,
            [i \in 1..Len(metadata.web_sources) |-> web_source(metadata.web_sources[i])]),
            [i \in 1..Len(metadata.rag_sources) |-> rag_source(metadata.rag_sources[i])]),
            [i \in 1..Len(metadata.sources) |-> misc_source(metadata.sources[i])])
     ELSE s1

\* research.py lines 77-83: whether the sync gets as far as the upsert
persist_finds(stored, notebook_id, session_id) ==
  /\ notebook_id # ""
  /\ session_id # ""
  /\ existing_index(list_sessions(stored), session_id) # 0

\* research.py lines 84-160: the snapshot handed to upsert_session
persist_snapshot(stored, session_id, report_text, research_topic, metadata, now) ==
  LET listed == list_sessions(stored)
      existing == listed[existing_index(listed, session_id)]
  IN [existing EXCEPT !.research_report = report_text,
                      !.research_state = "none",
                      !.updated_at = now,
                      !.sources = research_sources(existing.sources, report_text,
                                                   research_topic, metadata)]

\* research.py lines 70-163
_persist_research_session(stored, notebook_id, session_id, report_text, research_topic, metadata, now) ==
  IF persist_finds(stored, notebook_id, session_id)
  THEN upsert_session(stored,
                      persist_snapshot(stored, session_id, report_text, research_topic,
                                       metadata, now),
                      now, "")
  ELSE stored

\* The snapshots a client posts (notebook.py 580-587): what it holds, with or
\* without an id and a creation time of its own.
WebSource == Source("w1", "web", "a page", "http://page", "page text")
ClientReport(text) == Source("r-" \o text, "report", "report " \o text, "", text)
SnapshotContents ==
  { [messages |-> << Message("user", "what is x") >>, sources |-> << >>, research_report |-> ""],
    [messages |-> << Message("user", "what is x") >>, sources |-> << WebSource >>, research_report |-> ""],
    [messages |-> << Message("user", "what is x"), Message("assistant", "research finished") >>,
     sources |-> << WebSource, ClientReport("r1") >>, research_report |-> "r1"],
    [messages |-> << >>,
     sources |-> << ClientReport("r0"), WebSource, ClientReport("r1") >>,
     research_report |-> ""] }
GeneratedIds == {"u1", "u2"}              \* str(uuid.uuid4())[:8]
Snapshots ==
  LET heads ==
        {[session_id |-> "s1", created_at |-> 0, title |-> NoTitle],
         [session_id |-> "s1", created_at |-> 9, title |-> Unnamed],
         [session_id |-> "s2", created_at |-> 0, title |-> Title(0, "second")],
         [session_id |-> "", created_at |-> 0, title |-> NoTitle]}
  IN
  {[session_id |-> h.session_id, title |-> h.title, messages |-> c.messages,
    sources |-> c.sources, research_report |-> c.research_report,
    research_state |-> "none", created_at |-> h.created_at, updated_at |-> 0] :
     h \in heads, c \in SnapshotContents}

\* What the handler hands to the sync (research.py 967-973): the ids of the
\* handshake, the report and the result's metadata.
NoMetadata == [given |-> FALSE, web_sources |-> << >>, rag_sources |-> << >>, sources |-> << >>]
SomeMetadata ==
  [given |-> TRUE,
   web_sources |-> << [title |-> "a page", url |-> "http://page", content |-> "page text"],
                      [title |-> "", url |-> "http://other", content |-> "other text"] >>,
   rag_sources |-> << [title |-> "", source |-> "notes.pdf", url |-> "", content |-> "notes"] >>,
   sources |-> << [id |-> "", type |-> "", title |-> "misc", url |-> "", content |-> "misc text"] >>]
PersistTargets == {<< "nb", "s1" >>, << "nb", "s2" >>, << "", "s1" >>, << "nb", "" >>}

InitNotebook ==
  /\ pc = [c \in Conns |-> "off"]
  /\ faults = FALSE
  /\ InitCommon
  /\ ComposerIdle
  /\ LoaderIdle
  /\ NotebookIdle

\* notebook.py line 587
UpsertSession ==
  /\ clock < MaxCalls
  /\ \E session \in Snapshots, uuid \in GeneratedIds :
       /\ sessions' = upsert_session(sessions, session, clock + 1, uuid)
       /\ last_call' = [op |-> "upsert", session |-> session,
                        session_id |-> session_id_of(session, uuid), wrote |-> TRUE]
  /\ clock' = clock + 1
  /\ UNCHANGED << handler_vars, composer_vars, loader_vars >>

\* research.py lines 967-973
PersistResearch ==
  /\ clock < MaxCalls
  /\ \E target \in PersistTargets, report_text \in {"", "r2"},
        metadata \in {NoMetadata, SomeMetadata} :
       /\ sessions' = _persist_research_session(sessions, target[1], target[2],
                                                 report_text, "t1", metadata, clock + 1)
       /\ last_call' =
            IF persist_finds(sessions, target[1], target[2])
            THEN [op |-> "persist", report |-> report_text, wrote |-> TRUE,
                  notebook_id |-> target[1], session_id |-> target[2],
                  existing |-> list_sessions(sessions)[
                                 existing_index(list_sessions(sessions), target[2])],
                  session |-> persist_snapshot(sessions, target[2], report_text,
                                               "t1", metadata, clock + 1)]
            ELSE [op |-> "persist", report |-> report_text, wrote |-> FALSE,
                  notebook_id |-> target[1], session_id |-> target[2]]
  /\ clock' = clock + 1
  /\ UNCHANGED << handler_vars, composer_vars, loader_vars >>

NextNotebook ==
  \/ UpsertSession
  \/ PersistResearch

SpecNotebook == InitNotebook /\ [][NextNotebook]_vars

\* ---------------------------------------------------------------- properties
IsLog(a) == a.type = "log"
Bodies(s) == [i \in 1..Len(s) |-> s[i].body]
FirstOfType(s, t) == CHOOSE i \in 1..Len(s) : s[i].type = t /\ \A j \in 1..(i-1) : s[j].type # t
RunPhase == {"running", "after_report_path", "flush"}
TaskStatus(c) == registry[task_id[c]]

\* C1: a handshake whose topic is missing or empty issues no task id, creates
\* no registry entry, never starts the pipeline, and every message sent on the
\* connection is of type error, at most one of them delivered and exactly one
\* when the send of line 665 succeeds.
C1_NoTopicOnlyError ==
  \A c \in Conns :
    topic[c] \in FalsyTopics =>
      /\ task_id[c] = NoTask
      /\ \A t \in DOMAIN registry : registry[t] = "absent"
      /\ runs[c] = 0
      /\ pusher_task[c] = "none"
      /\ \A i \in 1..Len(sent[c]) : sent[c][i].type = "error"
      /\ Len(Delivered(c)) <= 1
      /\ (sent[c][1].ok => sent[c] = << Attempt(Msg("error", NoBody(c)), TRUE) >>)
      /\ (sent[c][1].ok => pc[c] = "done")

C1_Witness ==
  \E c \in Conns :
    /\ topic[c] \in FalsyTopics
    /\ pc[c] = "done"
    /\ Len(Delivered(c)) = 1

C3_NoTaskIdOnCredentialFailure ==
  \A c \in Conns :
    exit[c] = "cred_fail" =>
      /\ ~HasType(sent[c], "task_id")
      /\ task_id[c] = NoTask
      /\ registry[topic[c]] = "absent"

\* C4 as claimed: once the error message of a raised run is delivered, every
\* chunk that was on the log channel at the raise has been delivered before
\* it, in order (connection alive throughout).
C4_LogsBeforeError ==
  \A c \in Conns :
    (raise_mark[c] >= 0 /\ ws_connected[c] /\ HasType(Delivered(c), "error")) =>
      LET d == Delivered(c)
          k == FirstOfType(d, "error")
      IN Bodies(SelectSeq(SubSeq(d, 1, k - 1), IsLog))
           = SubSeq(log_enqueued[c], 1, raise_mark[c])

\* C5 as claimed: a run that sent an error message because it failed has sent
\* neither report_path nor result.
C5_ErrorExcludesResult ==
  \A c \in Conns :
    (runs[c] > 0 /\ HasType(Delivered(c), "error")) =>
      /\ ~HasType(Delivered(c), "result")
      /\ ~HasType(Delivered(c), "report_path")

\* C6: every delivered result message comes after a delivered report_path
\* message of the same run; no result is delivered when the report_path send
\* failed or was skipped.
C6_ResultAfterReportPath ==
  \A c \in Conns :
    LET d == Delivered(c) IN
    \A i \in 1..Len(d) :
      d[i].type = "result" => \E j \in 1..(i-1) : d[j].type = "report_path"

C6_Witness ==
  \E c \in Conns : HasType(Delivered(c), "result")

\* C7: once the alive flag is false no send I/O is attempted on the connection,
\* by a loop or by the handler, and no loop stops because of it: a loop task
\* changes only when the handler cleans up.
C7_NoSendAfterDead ==
  [][\A c \in Conns :
       /\ (~ws_connected[c] => sent'[c] = sent[c])
       /\ (pusher_task[c] = "running" /\ pc'[c] # "done" =>
             /\ pusher_task'[c] = "running"
             /\ progress_pusher_task'[c] = "running"
             /\ heartbeat_task'[c] = "running")]_vars

C7_Witness ==
  \E c \in Conns :
    /\ ~ws_connected[c]
    /\ skipped[c]
    /\ pings[c] > 0
    /\ exit[c] = "completed"

\* C8: the alive flag starts true and changes only from true to false, and only
\* in a step whose last send I/O failed.
C8_AliveMonotone ==
  /\ \A c \in Conns : ws_connected[c]
  /\ [][\A c \in Conns :
          ws_connected'[c] # ws_connected[c] =>
            /\ ws_connected[c]
            /\ ~ws_connected'[c]
            /\ Len(sent'[c]) > Len(sent[c])
            /\ ~sent'[c][Len(sent'[c])].ok]_vars

C8_Witness ==
  \E c \in Conns : ~ws_connected[c] /\ pc[c] = "done"

\* C9 as claimed: whenever no task is running, sys.stdout is the real sink.
C9_StdoutRestored ==
  (\A c \in Conns : pc[c] \notin RunPhase) => sys_stdout = Real

\* C10: a raise of the pipeline is handled once: the step that handles it
\* attempts exactly one error send if the flag is alive and none otherwise, no
\* later step sends another, the task's status is error when the handler has
\* returned, and the pipeline was invoked once.
C10_RaiseHandledOnce ==
  /\ [](\A c \in Conns :
          raise_mark[c] >= 0 =>
            /\ pc[c] \in {"err_status", "done"}
            /\ runs[c] = 1
            /\ CountType(sent[c], "error") <= 1
            /\ (ws_connected[c] => CountType(Delivered(c), "error") = 1)
            /\ (pc[c] = "done" => TaskStatus(c) = "error"))
  /\ [][\A c \in Conns :
          (raise_mark[c] < 0 /\ raise_mark'[c] >= 0) =>
            /\ CountType(sent[c], "error") = 0
            /\ CountType(sent'[c], "error") = (IF ws_connected[c] THEN 1 ELSE 0)]_vars

C10_Witness ==
  \E c \in Conns :
    /\ raise_mark[c] >= 0
    /\ pc[c] = "done"
    /\ CountType(Delivered(c), "error") = 1

\* C11 as claimed: when a persistence collaborator (history add_entry or the
\* notebook sync) raised after the pipeline returned a result, the task ends
\* completed, no error message is sent and the result message is still sent.
C11_PersistenceFailureKeepsCompleted ==
  \A c \in Conns :
    (persist_failed[c] # "none" /\ pc[c] = "done") =>
      /\ TaskStatus(c) = "completed"
      /\ ~HasType(sent[c], "error")
      /\ (ws_connected[c] => HasType(Delivered(c), "result"))

\* C12 as claimed: when the connection has died during a run whose pipeline
\* returned normally, the pipeline was not cancelled and the task's status is
\* completed once the handler has returned.
C12_DeadConnectionStillCompletes ==
  \A c \in Conns :
    (~ws_connected[c] /\ result[c] # "unset" /\ pc[c] = "done") =>
      /\ exit[c] # "task_cancelled"
      /\ TaskStatus(c) = "completed"

TerminalStatuses == {"completed", "cancelled", "error"}

\* C15 as claimed: a registry status that is completed, cancelled or error
\* never changes again.
C15_TerminalStatusFinal ==
  [][\A t \in DOMAIN registry :
       registry[t] \in TerminalStatuses => registry'[t] = registry[t]]_vars

\* C15 as amended: a run updates the status of its task at most once, in its
\* last step, to completed or to error according to how it leaves (never both);
\* the entry belongs to the task id, which runs with the same dedupe key share,
\* so the last step of a later run may replace a terminal status.
C15_OneTerminalUpdatePerRun ==
  [][\A t \in DOMAIN registry :
       registry'[t] # registry[t] =>
         \/ registry[t] = "absent" /\ registry'[t] = "running"
         \/ \E c \in Conns :
              /\ task_id[c] = t
              /\ pc[c] # "done"
              /\ pc'[c] = "done"
              /\ exit'[c] \in {"completed", "error"}
              /\ registry'[t] = exit'[c]]_vars

C15_Witness ==
  \E c, d \in Conns :
    /\ c # d
    /\ task_id[c] # NoTask
    /\ task_id[c] = task_id[d]
    /\ pc[c] = "done" /\ exit[c] = "completed"
    /\ pc[d] = "done" /\ exit[d] = "error"
    /\ TaskStatus(c) = "error"

IsProgress(a) == a.type = "progress"

\* C16: on each connection the delivered log messages are, in order, the first
\* chunks enqueued on its log queue (each once, unchanged), and the delivered
\* progress messages are events the pipeline emitted on that connection, in
\* the order of emission, each once and unchanged.
C16_ChannelFifo ==
  \A c \in Conns :
    LET dl == Bodies(SelectSeq(Delivered(c), IsLog))
        dp == Bodies(SelectSeq(Delivered(c), IsProgress))
    IN /\ Len(dl) <= Len(log_enqueued[c])
       /\ dl = SubSeq(log_enqueued[c], 1, Len(dl))
       /\ \A i \in 1..Len(dp) :
            /\ dp[i] = Body(c, dp[i].n, FALSE)
            /\ dp[i].n \in 1..events[c]
       /\ \A i, j \in 1..Len(dp) : i < j => dp[i].n < dp[j].n

C16_Witness ==
  \E c \in Conns :
    /\ Len(SelectSeq(Delivered(c), IsLog)) >= 2
    /\ Len(SelectSeq(Delivered(c), IsProgress)) >= 1

\* C19: requests with the same topic and kb_name are not merged: a handler that
\* has sent its task id can always start its own run, whatever other
\* connections with the same key have done; a handler past that point has
\* invoked the pipeline exactly once, and only a run of its own gives it a
\* result and the exit completed.
C19_NoDeduplication ==
  \A c \in Conns :
    /\ runs[c] <= 1
    /\ (pc[c] = "task_id_sent" => ENABLED StartRun(c))
    /\ (pc[c] \in RunPhase => runs[c] = 1 /\ pusher_task[c] = "running")
    /\ (exit[c] = "completed" \/ result[c] # "unset" => runs[c] = 1)

C19_Witness ==
  \E c, d \in Conns :
    /\ c # d
    /\ topic[c] \in Topics
    /\ topic[c] = topic[d]
    /\ task_id[c] = task_id[d]
    /\ pc[c] = "running" /\ runs[c] = 1
    /\ pc[d] = "running" /\ runs[d] = 1

\* C20 as claimed: a failed send I/O leaves the alive flag false and is the
\* last send I/O attempted on its connection.
C20_EverySendGated ==
  \A c \in Conns :
    \A i \in 1..Len(sent[c]) :
      ~sent[c][i].ok => (i = Len(sent[c]) /\ ~ws_connected[c])

Absent == Str("(absent)")
Researching == config.researching.dict
Decompose == config.planning.dict.decompose.dict
PresetMatched == preset_matches(loaded_config, preset_of(data))
\* the mapping a matched legacy preset holds for a section, empty otherwise
PresetSection(name) ==
  IF ~PresetMatched THEN EmptyDict
  ELSE LET preset_config == loaded_config.presets.dict[preset_of(data)].dict IN
       IF name \in DOMAIN preset_config /\ IsDict(preset_config[name])
       THEN preset_config[name].dict ELSE EmptyDict

\* C17 as claimed: the config composed for plan_mode quick has
\* researching.max_iterations 2 and iteration_mode fixed; for auto it has
\* planning.decompose.mode auto and researching.iteration_mode flexible.
C17_PlanModeValues ==
  compose_pc = "composed" =>
    /\ plan_mode_of(data) = "quick" =>
         /\ Get(Researching, "max_iterations", Absent) = Num(2)
         /\ Get(Researching, "iteration_mode", Absent) = Str("fixed")
    /\ plan_mode_of(data) = "auto" =>
         /\ Get(Decompose, "mode", Absent) = Str("auto")
         /\ Get(Researching, "iteration_mode", Absent) = Str("flexible")

\* C17 as amended: the plan mode's values are the composed ones wherever no
\* matching legacy preset writes over them: a key of researching that the
\* matched preset defines has the preset's value, and planning.decompose is
\* the preset's mapping as a whole when the preset's planning has one (a key
\* it lacks is then absent).
C17_PlanModeUnlessPreset ==
  compose_pc = "composed" =>
    LET r(key, v) == Get(Researching, key, Absent)
                       = Get(PresetSection("researching"), key, v)
        mode == IF "decompose" \in DOMAIN PresetSection("planning")
                THEN Get(PresetSection("planning").decompose.dict, "mode", Absent)
                ELSE Str("auto")
    IN /\ plan_mode_of(data) = "quick" =>
            /\ r("max_iterations", Num(2))
            /\ r("iteration_mode", Str("fixed"))
       /\ plan_mode_of(data) = "auto" =>
            /\ Get(Decompose, "mode", Absent) = mode
            /\ r("iteration_mode", Str("flexible"))

C17_Witness ==
  /\ compose_pc = "composed"
  /\ plan_mode_of(data) = "quick"
  /\ ~PresetMatched
  /\ "researching" \in DOMAIN loaded_config
  /\ loaded_config.researching.dict.max_iterations = Num(9)
  /\ Researching.max_iterations = Num(2)
  /\ Researching.iteration_mode = Str("fixed")

\* C18: for every enabled_tools list over RAG, Paper and Web, once the tools
\* are applied enable_web_search is true, enable_paper_search is true exactly
\* when Paper is listed, the three RAG flags are true exactly when RAG is
\* listed and enable_run_code is true, whatever the loaded config, the plan
\* mode and the legacy preset; the stored list holds Web and the listed tools,
\* each once, in the order of their first occurrence (Web first when it was
\* not listed).
C18_ToolFlags ==
  compose_pc \in {"tools", "composed"} =>
    LET tl == requested_tools(data)
        listed(t) == \E i \in 1..Len(tl) : tl[i] = t
        first(t) == IF listed(t)
                    THEN CHOOSE i \in 1..Len(tl) :
                           tl[i] = t /\ \A j \in 1..(i - 1) : tl[j] # t
                    ELSE 0
        stored == Researching.enabled_tools.list
    IN /\ Researching.enable_web_search = Bool(TRUE)
       /\ Researching.enable_paper_search = Bool(listed("Paper"))
       /\ Researching.enable_rag_naive = Bool(listed("RAG"))
       /\ Researching.enable_rag_hybrid = Bool(listed("RAG"))
       /\ Researching.enable_query_item = Bool(listed("RAG"))
       /\ Researching.enable_run_code = Bool(TRUE)
       /\ {stored[i] : i \in 1..Len(stored)} = {tl[i] : i \in 1..Len(tl)} \cup {"Web"}
       /\ \A i, j \in 1..Len(stored) : i < j =>
            /\ stored[i] # stored[j]
            /\ first(stored[i]) < first(stored[j])
       /\ stored = enabled_tools

C18_Witness ==
  /\ compose_pc = "composed"
  /\ requested_tools(data) = << "Paper" >>
  /\ PresetMatched
  /\ "researching" \in DOMAIN loaded_config
  /\ loaded_config.researching.dict.enable_web_search = Bool(FALSE)
  /\ Researching.enable_web_search = Bool(TRUE)
  /\ Researching.enable_paper_search = Bool(TRUE)
  /\ Researching.enable_rag_naive = Bool(FALSE)
  /\ Researching.enabled_tools = List(<< "Web", "Paper" >>)

NoDuplicates(q) ==
  \A i, j \in 1..Len(q) : i < j => q[i] # q[j]

\* C21 as claimed: under any overlap of tasks, every chunk written is on the
\* real sink exactly once, is enqueued on the log channel of at most one
\* task, and never on the channel of a task whose pipeline did not write it.
C21_ExclusiveSink ==
  /\ Len(real_sink) = Total(writes)
  /\ NoDuplicates(real_sink)
  /\ \A c \in Conns :
       \A i \in 1..Len(log_enqueued[c]) :
         /\ log_enqueued[c][i].conn = c
         /\ \A d \in Conns \ {c} :
              \A j \in 1..Len(log_enqueued[d]) : log_enqueued[d][j] # log_enqueued[c][i]

\* C22: once a handler that had started its loops has returned, by whatever
\* path, its three loop tasks are cancelled, and nothing is sent on its
\* connection and no heartbeat iteration happens any more.
C22_CleanupStopsLoops ==
  /\ [](\A c \in Conns :
          (pc[c] = "done" /\ runs[c] > 0) =>
            /\ pusher_task[c] = "cancelled"
            /\ progress_pusher_task[c] = "cancelled"
            /\ heartbeat_task[c] = "cancelled")
  /\ [][\A c \in Conns :
          pc[c] = "done" =>
            /\ sent'[c] = sent[c]
            /\ pings'[c] = pings[c]
            /\ progress_queue'[c] = progress_queue[c]
            /\ Len(log_queue'[c]) >= Len(log_queue[c])]_vars

C22_Witness ==
  \E c \in Conns :
    /\ pc[c] = "done"
    /\ exit[c] = "task_cancelled"
    /\ log_queue[c] # << >>
    /\ progress_queue[c] # << >>
    /\ heartbeat_task[c] = "cancelled"

C24_HeartbeatExitsOnFailure ==
  [][\A c \in Conns : ~ws_connected[c] => pings'[c] = pings[c]]_vars

\* C25: every chunk written during a run is on the real sink once, blank or
\* not; the chunks on the connection's log channel are exactly the non-blank
\* ones whose hand-off did not raise, each once and in the order written; a
\* write, whatever its hand-off did, leaves the pipeline running.
C25_InterceptorWrite ==
  /\ [](\A c \in Conns :
          LET Kept(x) == x.conn = c /\ ~x.ws /\ x \notin handoff_failed[c] IN
          /\ Len(real_sink) = Total(writes)
          /\ NoDuplicates(real_sink)
          /\ log_enqueued[c] = SelectSeq(real_sink, Kept)
          /\ \A x \in handoff_failed[c] :
               ~x.ws /\ \E i \in 1..Len(real_sink) : real_sink[i] = x)
  /\ [][real_sink' # real_sink => (pc' = pc /\ exit' = exit)]_vars

C25_Witness ==
  \E c \in Conns :
    /\ handoff_failed[c] # {}
    /\ log_enqueued[c] # << >>
    /\ \E i \in 1..Len(real_sink) : real_sink[i].ws

\* the report the claim names for a result: its own text when non-empty,
\* otherwise the readable file's content, otherwise nothing
ClaimedReport(r) ==
  IF r.report # "" THEN r.report
  ELSE IF r.final_report_path # "" /\ r.file = "readable" THEN FileText
  ELSE ""

ReportFileFails(c) == result[c] \in {"path_bad", "path_unreadable"}

\* C26 as claimed: the report of every result message is the result's own text
\* when non-empty, otherwise the readable file's content, otherwise empty; and
\* a run whose report file is missing or unreadable still sends report_path
\* and result and ends completed.
C26_ReportResolution ==
  \A c \in Conns :
    /\ \A i \in 1..Len(sent[c]) :
         sent[c][i].type = "result" =>
           sent[c][i].body.report = ClaimedReport(result_of(result[c]))
    /\ (ReportFileFails(c) /\ pc[c] = "done") =>
         /\ TaskStatus(c) = "completed"
         /\ (ws_connected[c] =>
               /\ HasType(Delivered(c), "report_path")
               /\ HasType(Delivered(c), "result"))

\* the same with the persistence collaborator of line 948 not raising
C26_ProbeWithoutHistoryFailure ==
  \A c \in Conns :
    persist_failed[c] # "history" =>
      /\ \A i \in 1..Len(sent[c]) :
           sent[c][i].type = "result" =>
             sent[c][i].body.report = ClaimedReport(result_of(result[c]))
      /\ (ReportFileFails(c) /\ pc[c] = "done") =>
           /\ TaskStatus(c) = "completed"
           /\ (ws_connected[c] =>
                 /\ HasType(Delivered(c), "report_path")
                 /\ HasType(Delivered(c), "result"))

C26_ProbeWitness ==
  \E c \in Conns :
    /\ result[c] = "path_unreadable"
    /\ pc[c] = "done"
    /\ ws_connected[c]
    /\ HasType(Delivered(c), "result")

\* whether every key of the mapping `over` has over's value in the mapping m
AsMapping(v) == IF IsDict(v) THEN v.dict ELSE EmptyDict
HasOverrides(m, over) == \A k \in DOMAIN over : Get(m, k, Absent) = over[k]
KnownMode == plan_mode_of(data) \in DOMAIN plan_mode_config
ModeSection(name) ==
  IF name \in DOMAIN plan_mode_config[plan_mode_of(data)]
  THEN plan_mode_config[plan_mode_of(data)][name] ELSE EmptyDict

\* C27 as claimed: for a known plan mode, every override the mode defines in
\* its planning, researching and reporting sections is present with the mode's
\* value in the composed config.
C27_PlanModeOverrides ==
  (compose_pc = "composed" /\ KnownMode) =>
    /\ \A k \in DOMAIN ModeSection("planning") :
         HasOverrides(Get(config.planning.dict, k, Dict(EmptyDict)).dict,
                      ModeSection("planning")[k])
    /\ HasOverrides(config.researching.dict, ModeSection("researching"))
    /\ HasOverrides(AsMapping(config.reporting), ModeSection("reporting"))

\* right after the plan mode step the planning and researching overrides are
\* in place, and reporting is what it was when the sections were initialised
C27_ProbeReportingLeftOut ==
  (compose_pc = "plan_mode" /\ KnownMode) =>
    /\ \A k \in DOMAIN ModeSection("planning") :
         HasOverrides(Get(config.planning.dict, k, Dict(EmptyDict)).dict,
                      ModeSection("planning")[k])
    /\ HasOverrides(config.researching.dict, ModeSection("researching"))
    /\ config.reporting = init_sections(loaded_config).reporting

C27_ProbeWitness ==
  /\ compose_pc = "plan_mode"
  /\ plan_mode_of(data) = "quick"
  /\ IsDict(config.reporting)
  /\ Get(config.reporting.dict, "report_type", Absent) # Str("summary")

SectionNames == {"planning", "researching", "reporting"}
BaseSection(name) == AsMapping(Get(loaded_config, name, Dict(EmptyDict)))
\* the base config holds the section as a mapping, or not at all
MappingOrAbsent(name) == name \in DOMAIN loaded_config => IsDict(loaded_config[name])
DefaultSection(name) == Get(research_config(loaded_config), name, Dict(EmptyDict)).dict

\* the defaults merged under the base key by key, recursing into every mapping
\* that both sides hold
RECURSIVE DeepFill(_, _)
DeepFill(own, dflt) ==
  [k \in DOMAIN own \cup DOMAIN dflt |->
     IF k \notin DOMAIN own THEN dflt[k]
     ELSE IF k \in DOMAIN dflt /\ IsDict(own[k]) /\ IsDict(dflt[k])
          THEN Dict(DeepFill(own[k].dict, dflt[k].dict))
          ELSE own[k]]

\* C28 as claimed: once the sections are initialised, each of planning,
\* researching and reporting is the base section with exactly its missing keys
\* filled from the module defaults at every nesting level (planning having
\* decompose and rephrase besides), and no present value is changed.
C28_DefaultsFillEveryLevel ==
  compose_pc = "sections" =>
    /\ config.planning.dict =
         ensure_key(ensure_key(DeepFill(BaseSection("planning"),
                                        DefaultSection("planning")),
                               "decompose"), "rephrase")
    /\ config.researching.dict =
         DeepFill(BaseSection("researching"), DefaultSection("researching"))
    /\ MappingOrAbsent("reporting") =>
         config.reporting.dict =
           DeepFill(BaseSection("reporting"), DefaultSection("reporting"))

\* C28 as amended: the top-level keys of each section are those of the base
\* and of the defaults (planning having decompose and rephrase besides); a key
\* the base lacks has the default's value; a key the base has keeps its value
\* as a whole, nested mappings included, except that a mapping held by a
\* key of the base planning section whose default is a mapping too gains the
\* default's keys it lacks, one level down and no further.
C28_DefaultsFillTopLevels ==
  compose_pc = "sections" =>
    /\ \A name \in SectionNames :
         LET base == BaseSection(name)
             dflt == DefaultSection(name)
             made == config[name].dict
         IN IF ~MappingOrAbsent(name) THEN config[name] = loaded_config[name] ELSE
            /\ DOMAIN made = DOMAIN base \cup DOMAIN dflt \cup
                               (IF name = "planning" THEN {"decompose", "rephrase"} ELSE {})
            /\ \A k \in DOMAIN dflt \ DOMAIN base : made[k] = dflt[k]
            /\ \A k \in DOMAIN base :
                 IF name = "planning" /\ k \in DOMAIN dflt
                    /\ IsDict(base[k]) /\ IsDict(dflt[k])
                 THEN /\ IsDict(made[k])
                      /\ DOMAIN made[k].dict = DOMAIN base[k].dict \cup DOMAIN dflt[k].dict
                      /\ \A kk \in DOMAIN base[k].dict : made[k].dict[kk] = base[k].dict[kk]
                      /\ \A kk \in DOMAIN dflt[k].dict \ DOMAIN base[k].dict :
                           made[k].dict[kk] = dflt[k].dict[kk]
                 ELSE made[k] = base[k]
    /\ \A k \in DOMAIN loaded_config \ SectionNames : config[k] = loaded_config[k]

C28_Witness ==
  /\ compose_pc = "sections"
  /\ "researching" \in DOMAIN loaded_config
  /\ "research" \in DOMAIN loaded_config
  /\ "top_k" \in DOMAIN DefaultSection("researching").rag.dict
  /\ config.researching.dict.rag = Dict([mode |-> Str("hybrid")])
  /\ config.researching.dict.max_iterations = Num(9)
  /\ config.researching.dict.max_parallel_topics = Num(2)
  /\ config.planning.dict.decompose.dict.mode = Str("manual")
  /\ config.planning.dict.decompose.dict.auto_max_subtopics = Num(4)

PlanModeStep == compose_pc = "sections" /\ compose_pc' = "plan_mode"

\* the keys of the mapping m that are not in `named` are the same, with the
\* same values, in the mapping n
OthersKept(m, n, named) ==
  /\ DOMAIN n \ named = DOMAIN m \ named
  /\ \A k \in DOMAIN m \ named : n[k] = m[k]

\* C29 as claimed: the plan mode step changes only the sub-keys the matched
\* mode names: the other keys of planning's mappings and of researching, and
\* every other key of the config, keep their values; an unknown plan_mode
\* changes nothing and sends nothing.
C29_PlanModeFrame ==
  [][PlanModeStep =>
       /\ OthersKept(config, config', {"planning", "researching"})
       /\ OthersKept(config.planning.dict, config'.planning.dict,
                     mode_planning_keys(plan_mode_of(data)))
       /\ \A k \in mode_planning_keys(plan_mode_of(data)) :
            OthersKept(Get(config.planning.dict, k, Dict(EmptyDict)).dict,
                       config'.planning.dict[k].dict,
                       DOMAIN ModeSection("planning")[k])
       /\ OthersKept(config.researching.dict, config'.researching.dict,
                     IF KnownMode THEN DOMAIN ModeSection("researching") ELSE {})
       /\ (~KnownMode => config' = config)
       /\ sent' = sent]_vars

\* the same, leaving aside what the step does to config["research"]
C29_ProbeFrameOutsideResearch ==
  [][PlanModeStep =>
       /\ OthersKept(config, config', {"planning", "researching", "research"})
       /\ OthersKept(config.planning.dict, config'.planning.dict,
                     mode_planning_keys(plan_mode_of(data)))
       /\ \A k \in mode_planning_keys(plan_mode_of(data)) :
            OthersKept(Get(config.planning.dict, k, Dict(EmptyDict)).dict,
                       config'.planning.dict[k].dict,
                       DOMAIN ModeSection("planning")[k])
       /\ OthersKept(config.researching.dict, config'.researching.dict,
                     IF KnownMode THEN DOMAIN ModeSection("researching") ELSE {})
       /\ (~KnownMode => config' = config)
       /\ sent' = sent]_vars

C29_ProbeWitness ==
  /\ compose_pc = "plan_mode"
  /\ plan_mode_of(data) = "quick"
  /\ "planning" \notin DOMAIN loaded_config
  /\ "research" \in DOMAIN loaded_config
  /\ loaded_config.research.dict.planning.dict.decompose.dict.mode = Str("auto")
  /\ config.research.dict.planning.dict.decompose.dict.mode = Str("manual")

ToolFlagNames ==
  {"enable_rag_naive", "enable_rag_hybrid", "enable_query_item",
   "enable_paper_search", "enable_web_search", "enable_run_code"}
IsBool(v) == "bool" \in DOMAIN v
HasMapping(m, k) == k \in DOMAIN m /\ IsDict(m[k])
\* nothing supplies the section: neither the base config nor the module defaults
Unsupplied(name) == DOMAIN BaseSection(name) = {} /\ DOMAIN DefaultSection(name) = {}

\* C30 as claimed: the composed config has planning.decompose,
\* planning.rephrase, researching and reporting as mappings (reporting an empty
\* one when nothing supplies it) and the six enable_* flags of researching as
\* booleans.
C30_RequiredKeysPresent ==
  compose_pc = "composed" =>
    /\ HasMapping(config, "planning")
    /\ HasMapping(config.planning.dict, "decompose")
    /\ HasMapping(config.planning.dict, "rephrase")
    /\ HasMapping(config, "researching")
    /\ HasMapping(config, "reporting")
    /\ (Unsupplied("reporting") /\ ~PresetMatched) => config.reporting = Dict(EmptyDict)
    /\ \A f \in ToolFlagNames :
         f \in DOMAIN config.researching.dict /\ IsBool(config.researching.dict[f])

\* the same for the base configs that hold reporting as a mapping or not at all
C30_ProbeMappingSections ==
  (compose_pc = "composed" /\ MappingOrAbsent("reporting")) =>
    /\ HasMapping(config, "planning")
    /\ HasMapping(config.planning.dict, "decompose")
    /\ HasMapping(config.planning.dict, "rephrase")
    /\ HasMapping(config, "researching")
    /\ HasMapping(config, "reporting")
    /\ (Unsupplied("reporting") /\ ~PresetMatched) => config.reporting = Dict(EmptyDict)
    /\ \A f \in ToolFlagNames :
         f \in DOMAIN config.researching.dict /\ IsBool(config.researching.dict[f])

C30_ProbeWitness ==
  /\ compose_pc = "composed"
  /\ loaded_config = EmptyDict
  /\ plan_mode_of(data) = "turbo"
  /\ config.planning.dict.decompose = Dict(EmptyDict)
  /\ config.reporting = Dict(EmptyDict)
  /\ config.researching.dict.enable_paper_search = Bool(FALSE)

\* C32: on every connection at most one terminal message is delivered: never
\* a result and an error both, and neither of them twice.
C32_OneTerminalMessage ==
  \A c \in Conns :
    CountType(Delivered(c), "result") + CountType(Delivered(c), "error") <= 1

\* a run that delivered its result and then met a failing notebook sync
C32_Witness ==
  \E c \in Conns :
    /\ pc[c] = "done"
    /\ persist_failed[c] = "notebook"
    /\ CountType(Delivered(c), "result") = 1
    /\ ws_connected[c]

TerminalTypes == {"result", "cancelled", "error"}
HasTopic(c) == topic[c] \in Topics
Returned(c) == pc[c] = "done"

\* C33 as claimed: when the handler has returned on a connection whose
\* handshake carried a non-empty topic and which is still alive, the client has
\* received a message of type result, cancelled or error.
C33_TerminalMessageSent ==
  \A c \in Conns :
    (Returned(c) /\ HasTopic(c) /\ ws_connected[c]) =>
      \E t \in TerminalTypes : HasType(Delivered(c), t)

\* the same for the runs whose pipeline returned a non-empty result or raised
C33_ProbeResultOrRaise ==
  \A c \in Conns :
    (Returned(c) /\ HasTopic(c) /\ ws_connected[c]
       /\ (result[c] \in ResultKinds \ {"none"} \/ raise_mark[c] >= 0)) =>
      \E t \in TerminalTypes : HasType(Delivered(c), t)

C33_ProbeWitness ==
  \E c \in Conns :
    /\ Returned(c) /\ HasTopic(c) /\ ws_connected[c]
    /\ result[c] = "none"
    /\ exit[c] = "completed"
    /\ \A t \in TerminalTypes : ~HasType(sent[c], t)

Issued(c) == task_id[c] # NoTask

\* C34 as claimed: when the handler of a task with an issued id has returned,
\* the task's registry status is completed, cancelled or error, and it is
\* completed only if the pipeline returned.
C34_TerminalStatusReached ==
  \A c \in Conns :
    (Returned(c) /\ Issued(c)) =>
      /\ TaskStatus(c) \in TerminalStatuses
      /\ (TaskStatus(c) = "completed" => result[c] # "unset")

\* the same for the handlers that returned after the pipeline returned or raised
C34_ProbeAfterPipeline ==
  \A c \in Conns :
    (Returned(c) /\ Issued(c) /\ (result[c] # "unset" \/ raise_mark[c] >= 0)) =>
      /\ TaskStatus(c) \in TerminalStatuses
      /\ (TaskStatus(c) = "completed" => result[c] # "unset")

C34_ProbeWitness ==
  \E c \in Conns :
    /\ Returned(c) /\ Issued(c)
    /\ exit[c] = "cred_fail"
    /\ TaskStatus(c) = "running"

\* C35: on a connection whose handshake carried a non-empty topic, the task_id
\* message is the first send attempted and is attempted exactly once, and the
\* pipeline has been started only after the task_id and the status sends were
\* attempted.
C35_TaskIdFirst ==
  \A c \in Conns :
    HasTopic(c) =>
      /\ sent[c] # << >> =>
           /\ sent[c][1].type = "task_id"
           /\ CountType(sent[c], "task_id") = 1
      /\ runs[c] > 0 =>
           /\ HasType(sent[c], "task_id")
           /\ HasType(sent[c], "status")
           /\ FirstOfType(sent[c], "task_id") < FirstOfType(sent[c], "status")
           /\ \A i \in 1..Len(sent[c]) :
                sent[c][i].type \in {"log", "progress", "ping", "report_path", "result"}
                  => FirstOfType(sent[c], "status") < i

C35_Witness ==
  \E c \in Conns :
    /\ HasTopic(c)
    /\ Returned(c)
    /\ runs[c] = 1
    /\ HasType(Delivered(c), "log")
    /\ HasType(Delivered(c), "ping")
    /\ HasType(Delivered(c), "result")

\* r has exactly the keys of b and o; a key whose two values are mappings
\* holds a mapping that is their merge in the same sense; any other key of o
\* holds o's value; a key of b alone holds b's value
RECURSIVE IsMergeOf(_, _, _)
IsMergeOf(r, b, o) ==
  /\ DOMAIN r = DOMAIN b \cup DOMAIN o
  /\ \A k \in DOMAIN r :
       IF k \in DOMAIN b /\ k \in DOMAIN o /\ IsDict(b[k]) /\ IsDict(o[k])
       THEN IsDict(r[k]) /\ IsMergeOf(r[k].dict, b[k].dict, o[k].dict)
       ELSE IF k \in DOMAIN o THEN r[k] = o[k]
       ELSE r[k] = b[k]

MergeStep == loader_pc = "loaded" /\ loader_pc' = "merged"

\* C31: the mapping _deep_merge returns has exactly the keys of base and
\* override, with the recursive merge where both hold a mapping, override's
\* value for every other key of override and base's value for the keys of base
\* alone; the call leaves base and override as they were; with an empty
\* override the result equals base.
C31_DeepMerge ==
  [][MergeStep =>
       /\ IsMergeOf(merged_config', main_config, module_config)
       /\ main_config' = main_config
       /\ module_config' = module_config
       /\ (DOMAIN module_config = {} => merged_config' = main_config)]_vars

\* a merge one level down: base's nested mapping took override's value for
\* the key both have, a plain value of base was replaced by override's
\* mapping, and the nested step left base's mapping as it was
C31_Witness ==
  /\ loader_pc = "merged"
  /\ main_config = [research |-> Dict([planning |-> Str("main")]),
                    system |-> Str("main")]
  /\ module_config = [research |-> Dict([planning |-> Str("module")]),
                      system |-> Dict(EmptyDict)]
  /\ merged_config = [research |-> Dict([planning |-> Str("module")]),
                      system |-> Dict(EmptyDict)]

\* ---- notebook sessions
StoredWith(stored, session_id) == stored[existing_index(stored, session_id)]
ReportSources(session) == SelectSeq(session.sources, IsReport)
OtherSources(session) == SelectSeq(session.sources, NotReport)
IsPrefix(s, t) == Len(s) <= Len(t) /\ SubSeq(t, 1, Len(s)) = s
PersistCall == last_call'.op = "persist" /\ clock' = clock + 1
PersistMisses ==
  \/ last_call'.notebook_id = ""
  \/ last_call'.session_id = ""
  \/ \A i \in 1..Len(sessions) : sessions[i].session_id # last_call'.session_id

\* C36: a research sync with a non-empty report on an existing session leaves
\* the stored session with exactly one source of type report, which holds that
\* report, whatever report sources it had and however often results were
\* synced before, and with every non-report source it had; a sync without a
\* notebook id or a session id, or for a session that is not stored, leaves the
\* stored sessions as they were.
C36_Step ==
  PersistCall =>
    IF PersistMisses
    THEN sessions' = sessions
    ELSE last_call'.report # "" =>
           /\ Len(sessions') = Len(sessions)
           /\ Len(ReportSources(StoredWith(sessions', last_call'.session_id))) = 1
           /\ ReportSources(StoredWith(sessions', last_call'.session_id))[1].content
                = last_call'.report
           /\ IsPrefix(OtherSources(StoredWith(sessions, last_call'.session_id)),
                       OtherSources(StoredWith(sessions', last_call'.session_id)))
C36_OneReportSource == [][C36_Step]_vars
\* a second sync on a session that came with two report sources and a web page
C36_Witness ==
  /\ last_call.op = "persist"
  /\ last_call.wrote
  /\ last_call.report = "r2"
  /\ last_call.existing.research_report = "r2"
  /\ last_call.existing.messages = << >>
  /\ Len(ReportSources(StoredWith(sessions, last_call.session_id))) = 1
  /\ OtherSources(StoredWith(sessions, last_call.session_id))[1] = WebSource
  /\ Len(OtherSources(StoredWith(sessions, last_call.session_id))) > 1

UpsertCall == last_call'.op \in {"upsert", "persist"} /\ last_call'.wrote /\ clock' = clock + 1
Known(stored, session_id) == \E i \in 1..Len(stored) : stored[i].session_id = session_id
HoldsReport(session) == session.research_report # "" \/ ReportSources(session) # << >>

\* C37: an upsert whose snapshot carries no report (an empty research_report
\* and no source of type report), on a stored session that has a research_report
\* or a source of type report, leaves the stored session with the research_report
\* and the report sources it had.
C37_Step ==
  ( /\ UpsertCall
    /\ Known(sessions, last_call'.session_id)
    /\ HoldsReport(StoredWith(sessions, last_call'.session_id))
    /\ ~HoldsReport(last_call'.session) )
  => /\ StoredWith(sessions', last_call'.session_id).research_report
          = StoredWith(sessions, last_call'.session_id).research_report
     /\ ReportSources(StoredWith(sessions', last_call'.session_id))
          = ReportSources(StoredWith(sessions, last_call'.session_id))
C37_ReportNeverLost == [][C37_Step]_vars
\* a session synced with a report, then posted by a client that holds none
C37_Witness ==
  /\ last_call.op = "upsert"
  /\ ~HoldsReport(last_call.session)
  /\ last_call.session.sources = << WebSource >>
  /\ Known(sessions, last_call.session_id)
  /\ StoredWith(sessions, last_call.session_id).research_report = "r2"
  /\ ReportSources(StoredWith(sessions, last_call.session_id))
       = << report_source("r2", "t1") >>

NoSharedId ==
  \A i, j \in 1..Len(sessions) : sessions[i].session_id = sessions[j].session_id => i = j

\* C38: no two stored sessions share a session_id; an upsert with an id that
\* is stored replaces that entry where it is and keeps its created_at, an upsert
\* with a new id appends exactly one entry, and the number of stored sessions
\* never decreases.
C38_Step ==
  /\ Len(sessions') >= Len(sessions)
  /\ UpsertCall =>
       IF Known(sessions, last_call'.session_id)
       THEN /\ Len(sessions') = Len(sessions)
            /\ \A i \in 1..Len(sessions) :
                 IF sessions[i].session_id = last_call'.session_id
                 THEN /\ sessions'[i].session_id = last_call'.session_id
                      /\ sessions'[i].created_at = sessions[i].created_at
                 ELSE sessions'[i] = sessions[i]
       ELSE /\ Len(sessions') = Len(sessions) + 1
            /\ SubSeq(sessions', 1, Len(sessions)) = sessions
            /\ sessions'[Len(sessions')].session_id = last_call'.session_id
C38_UniqueSessionIds == [] NoSharedId /\ [][C38_Step]_vars
\* the first of two sessions posted again with a creation time of its own
C38_Witness ==
  /\ Len(sessions) = 2
  /\ sessions[1].session_id = "s1"
  /\ sessions[1].created_at = 1
  /\ sessions[2].session_id = "s2"
  /\ last_call.op = "upsert"
  /\ last_call.session_id = "s1"
  /\ last_call.session.created_at = 9

====
